---- MODULE Spec2Model ----
(***************************************************************************)
(* Model of the webhook bot of daily-report-notification: the per-user     *)
(* conversation state store (state_store.py), the place resolver           *)
(* (geocode.py), the timezone calculator (tz.py), the dialogue controller  *)
(* (webhook_app.py), and the fetch helper and the forecast cache           *)
(* (weather.py).                                                           *)
(*                                                                         *)
(* Spec is the webhook handling its events; StoreSpec, WeatherSpec,        *)
(* FetchSpec, TzSpec and SlotSpec exercise the state store, the forecast   *)
(* lookup, the fetch helper, the timezone calculator and the choice of the *)
(* forecast slots on their own; ConcSpec interleaves the handlers of two   *)
(* users at their store operations; RunSpec and RunFairSpec run one        *)
(* handler step by step through its upstream requests; BroadcastSpec runs  *)
(* the scheduled broadcast script (daily_broadcast.py) once.               *)
(*                                                                         *)
(* The webhook is an `async def` whose handlers make only blocking calls,  *)
(* so one inbound event is handled from start to end before the next one   *)
(* starts: each handler is one action.  Wall-clock time passes while a     *)
(* handler waits for the geocoding upstream; that wait is an input of the  *)
(* action.  Time is counted in seconds.                                    *)
(***************************************************************************)
EXTENDS Integers, Sequences, FiniteSets, TLC

VARIABLES
    now,      \* wall clock, datetime.now(timezone.utc), in seconds
    store,    \* StateStore._store: user id -> state dict
    ev,       \* what the handling of the last inbound event did
    pending,  \* user id -> the inbound event of the user that is in flight
    mono,                 \* time.monotonic(), in seconds
    weather_cache,        \* weather._weather_cache: cache key -> triple
    weather_cache_time,   \* weather._weather_cache_time: cache key -> time
    upstream              \* cache key -> the last fetch made for the key

vars == <<now, store, ev, pending, mono, weather_cache, weather_cache_time, upstream>>

\* the state of weather.py
wvars == <<mono, weather_cache, weather_cache_time, upstream>>

----------------------------------------------------------------------------
(* Bounds and input domains *)

\* the clock stops here
MaxNow == 700

\* the time that passes between two events
TickSteps == {100, 500}

\* the time a call of resolve_place takes when it asks the upstream: an
\* immediate answer, or a slow one (a 429 answer, the 60 second wait the
\* fetch helper then makes, and a slow answer to the second attempt)
Delays == {0, 100}

Users == {"u1"}

\* Python's None
None == [none |-> TRUE]

----------------------------------------------------------------------------
(* Python dict helpers *)

\* d.get(k, default)
GetOr(d, k, default) == IF k \in DOMAIN d THEN d[k] ELSE default

\* d.get(k)
Get(d, k) == GetOr(d, k, None)

\* d.update(kw), as a value
Update(d, kw) ==
    [k \in DOMAIN d \cup DOMAIN kw |-> IF k \in DOMAIN kw THEN kw[k] ELSE d[k]]

\* d[k] = v, as a value
Put(d, k, v) == [x \in DOMAIN d \cup {k} |-> IF x = k THEN v ELSE d[x]]

\* del d[k], as a value
Del(d, k) == [x \in DOMAIN d \ {k} |-> d[x]]

EmptyDict == [x \in {} |-> None]

\* truth value of `not x` for x a dict or None
Falsy(x) == x = None \/ DOMAIN x = {}

----------------------------------------------------------------------------
(* Text: a string is a sequence of one-character strings *)

Whitespace == {" "}

LowerOf ==
    [c \in {"M", "E", "N", "U", "H", "L", "P", "G"} |->
        CASE c = "M" -> "m" [] c = "E" -> "e" [] c = "N" -> "n"
          [] c = "U" -> "u" [] c = "H" -> "h" [] c = "L" -> "l"
          [] c = "P" -> "p" [] c = "G" -> "g"]

\* str.lower()
lower(s) == [i \in 1..Len(s) |-> IF s[i] \in DOMAIN LowerOf THEN LowerOf[s[i]] ELSE s[i]]

RECURSIVE lstrip(_)
lstrip(s) == IF s # <<>> /\ Head(s) \in Whitespace THEN lstrip(Tail(s)) ELSE s

RECURSIVE rstrip(_)
rstrip(s) ==
    IF s # <<>> /\ s[Len(s)] \in Whitespace
    THEN rstrip(SubSeq(s, 1, Len(s) - 1))
    ELSE s

\* str.strip()
strip(s) == rstrip(lstrip(s))

MenuTokens ==
    { <<"メ", "ニ", "ュ", "ー">>, <<"m", "e", "n", "u">>,
      <<"h", "e", "l", "p">>, <<"ヘ", "ル", "プ">> }

\* the texts a user sends; the empty one is also what the webhook passes on
\* for a text message without text
Texts ==
    { <<>>,
      <<"x">>,
      <<" ", "M", "e", "n", "u", " ">>,
      <<"H", "E", "L", "P">>,
      <<"メ", "ニ", "ュ", "ー">>,
      <<"ヘ", "ル", "プ">>,
      <<"G", "l", "a", "s", "g", "o", "w">>,
      <<" ", "x", " ">> }

IsMenuText(text) == lower(strip(text)) \in MenuTokens

----------------------------------------------------------------------------
(* state_store.py *)

STATE_TIMEOUT_SECONDS == 600

ttl_hours == 24

\* _is_expired as it would be if the lifetime ran from the last update
is_expired_sliding(state, t) ==
    IF "created_at" \notin DOMAIN state
    THEN TRUE
    ELSE t > GetOr(state, "updated_at", state["created_at"]) + ttl_hours * 3600

\* StateStore._is_expired, evaluated at time t
is_expired(state, t) ==
    IF "created_at" \notin DOMAIN state
    THEN TRUE
    ELSE t > state["created_at"] + ttl_hours * 3600

\* StateStore._is_timed_out, evaluated at time t
is_timed_out(state, t) ==
    IF "updated_at" \notin DOMAIN state
    THEN TRUE
    ELSE (t - state["updated_at"]) >= STATE_TIMEOUT_SECONDS

\* get_state as it would be if a read refreshed updated_at
get_state_touch(s, user_id, t) ==
    IF user_id \notin DOMAIN s
    THEN [store |-> s, ret |-> None]
    ELSE IF is_timed_out(s[user_id], t) \/ is_expired(s[user_id], t)
         THEN [store |-> Del(s, user_id), ret |-> None]
         ELSE [store |-> Put(s, user_id, Put(s[user_id], "updated_at", t)),
               ret |-> Put(s[user_id], "updated_at", t)]

\* get_state as it would be with the maximum lifetime alone
get_state_lifetime_only(s, user_id, t) ==
    IF user_id \notin DOMAIN s
    THEN [store |-> s, ret |-> None]
    ELSE IF is_expired(s[user_id], t)
         THEN [store |-> Del(s, user_id), ret |-> None]
         ELSE [store |-> s, ret |-> s[user_id]]

\* StateStore.get_state: the store afterwards and the value returned
get_state(s, user_id, t) ==
    IF user_id \notin DOMAIN s
    THEN [store |-> s, ret |-> None]
    ELSE IF is_timed_out(s[user_id], t)
         THEN [store |-> Del(s, user_id), ret |-> None]
         ELSE IF is_expired(s[user_id], t)
              THEN [store |-> Del(s, user_id), ret |-> None]
              ELSE [store |-> s, ret |-> s[user_id]]

\* set_state as it would be if it merged the fields into the existing state
set_state_merge(s, user_id, state, t) ==
    LET old == IF user_id \in DOMAIN s THEN s[user_id] ELSE EmptyDict
        merged == Update(old, state)
    IN  Put(s, user_id,
            Put(IF "created_at" \in DOMAIN merged THEN merged ELSE Put(merged, "created_at", t),
                "updated_at", t))

\* StateStore.set_state
set_state(s, user_id, state, t) ==
    Put(s, user_id, Put(Put(state, "created_at", t), "updated_at", t))

\* update_state as it would be if it started from an empty dict every time
update_state_replace(s, user_id, kwargs, t) ==
    LET g == get_state(s, user_id, t)
    IN  Put(g.store, user_id,
            Put(Put(kwargs, "updated_at", t), "created_at",
                IF Falsy(g.ret) THEN t ELSE g.ret["created_at"]))

\* update_state as it would be if it merged no other key than "step"
update_state_step_only(s, user_id, kwargs, t) ==
    LET g == get_state(s, user_id, t)
        current == Update(IF Falsy(g.ret) THEN EmptyDict ELSE g.ret,
                          [k \in DOMAIN kwargs \cap {"step"} |-> kwargs[k]])
        stamped == Put(current, "updated_at", t)
        final == IF "created_at" \notin DOMAIN stamped
                 THEN Put(stamped, "created_at", t)
                 ELSE stamped
    IN  Put(g.store, user_id, final)

\* StateStore.update_state
update_state(s, user_id, kwargs, t) ==
    LET g == get_state(s, user_id, t)
        current == Update(IF Falsy(g.ret) THEN EmptyDict ELSE g.ret, kwargs)
        stamped == Put(current, "updated_at", t)
        final == IF "created_at" \notin DOMAIN stamped
                 THEN Put(stamped, "created_at", t)
                 ELSE stamped
    IN  Put(g.store, user_id, final)

\* clear_state as it would be if it emptied the store (`self._store.clear()`)
clear_state_all(s, user_id) == EmptyDict

\* StateStore.clear_state
clear_state(s, user_id) == IF user_id \in DOMAIN s THEN Del(s, user_id) ELSE s

----------------------------------------------------------------------------
(* geocode.py *)

\* candidates as the geocoding upstream returns them (keys may be missing;
\* latitude and longitude in units of 0.0001 degree)
RawGlasgow ==
    [name |-> "Glasgow", latitude |-> 558642, longitude |-> -42518,
     timezone |-> "Europe/London", country |-> "United Kingdom",
     admin1 |-> "Scotland"]

RawKolkata ==
    [name |-> "Kolkata", latitude |-> 225626, longitude |-> 883630,
     timezone |-> "Asia/Kolkata", country |-> "India"]

\* a candidate whose timezone no zone database resolves
RawOlympus ==
    [name |-> "Olympus", latitude |-> 186500, longitude |-> -1338000,
     timezone |-> "Mars/Olympus"]

\* what the geocoding upstream answers to one search_place request
GeoResponses ==
    { [kind |-> "error"],                                \* every attempt failed
      [kind |-> "notdict"],                              \* JSON that is no object
      [kind |-> "json", data |-> EmptyDict],             \* no "results" key
      [kind |-> "json", data |-> [results |-> <<>>]],
      [kind |-> "json", data |-> [results |-> <<RawGlasgow>>]],
      [kind |-> "json", data |-> [results |-> <<RawOlympus>>]],
      [kind |-> "json", data |-> [results |-> <<RawKolkata, RawGlasgow>>]] }

\* one entry of the list search_place builds from a raw candidate
Candidate(r) ==
    [name |-> GetOr(r, "name", ""),
     latitude |-> GetOr(r, "latitude", 0),
     longitude |-> GetOr(r, "longitude", 0),
     timezone |-> GetOr(r, "timezone", "UTC"),
     country |-> GetOr(r, "country", ""),
     country_code |-> GetOr(r, "country_code", ""),
     admin1 |-> GetOr(r, "admin1", "")]

\* search_place as it would be without the test of the length
search_place_unfiltered(query, geo) ==
    IF geo.kind = "error"
    THEN [calls |-> 1, raised |-> FALSE, ret |-> <<>>]
    ELSE IF geo.kind = "notdict"
         THEN [calls |-> 1, raised |-> TRUE, ret |-> <<>>]
         ELSE LET results == GetOr(geo.data, "results", <<>>)
              IN  [calls |-> 1, raised |-> FALSE,
                   ret |-> [i \in 1..Len(results) |-> Candidate(results[i])]]

\* search_place(query): calls = upstream requests made, raised = an
\* exception left the function, ret = the list returned
search_place(query, geo) ==
    IF Len(strip(query)) < 2
    THEN [calls |-> 0, raised |-> FALSE, ret |-> <<>>]
    ELSE IF geo.kind = "error"
         THEN [calls |-> 1, raised |-> FALSE, ret |-> <<>>]
         ELSE IF geo.kind = "notdict"
              THEN [calls |-> 1, raised |-> TRUE, ret |-> <<>>]
              ELSE LET results == GetOr(geo.data, "results", <<>>)
                   IN  [calls |-> 1, raised |-> FALSE,
                        ret |-> [i \in 1..Len(results) |-> Candidate(results[i])]]

\* the display name, as the sequence of the parts joined by ", "
DisplayName(c) ==
    <<c.name>>
    \o (IF c.admin1 # "" /\ c.admin1 # c.name THEN <<c.admin1>> ELSE <<>>)
    \o (IF c.country # "" THEN <<c.country>> ELSE <<>>)

\* resolve_place(query)
resolve_place(query, geo) ==
    LET sp == search_place(query, geo)
    IN  IF sp.raised
        THEN [calls |-> sp.calls, raised |-> TRUE, ret |-> None]
        ELSE IF sp.ret = <<>>
             THEN [calls |-> sp.calls, raised |-> FALSE, ret |-> None]
             ELSE LET c == sp.ret[1]
                  IN  [calls |-> sp.calls, raised |-> FALSE,
                       ret |-> [name |-> c.name, lat |-> c.latitude,
                                lon |-> c.longitude, timezone |-> c.timezone,
                                display_name |-> DisplayName(c)]]

----------------------------------------------------------------------------
(* tz.py *)

\* the zones ZoneInfo resolves, with their UTC offset in minutes
UtcOffsetMinutes ==
    [z \in {"UTC", "Europe/London", "Asia/Tokyo", "Asia/Kolkata",
             "Asia/Kathmandu", "America/St_Johns"} |->
        CASE z = "UTC" -> 0
          [] z = "Europe/London" -> 0
          [] z = "Asia/Tokyo" -> 540
          [] z = "Asia/Kolkata" -> 330
          [] z = "Asia/Kathmandu" -> 345
          [] z = "America/St_Johns" -> -210]

KnownZone(tz) == tz \in DOMAIN UtcOffsetMinutes

\* int(x / y) for y > 0: truncation toward zero
TruncDiv(x, y) == IF x >= 0 THEN x \div y ELSE -((-x) \div y)

\* calculate_timezone_difference as it would be if it rounded down (// 3600)
calculate_timezone_difference_floor(from_tz, to_tz) ==
    IF ~(KnownZone(from_tz) /\ KnownZone(to_tz))
    THEN [raised |-> FALSE, hours |-> 0, diff_str |-> [text |-> "tz-unavailable", n |-> 0]]
    ELSE LET hours_diff == ((UtcOffsetMinutes[to_tz] - UtcOffsetMinutes[from_tz]) * 60) \div 3600
         IN  [raised |-> FALSE, hours |-> hours_diff,
              diff_str |->
                  IF hours_diff = 0 THEN [text |-> "no-difference", n |-> 0]
                  ELSE IF hours_diff > 0 THEN [text |-> "+{n}h", n |-> hours_diff]
                  ELSE [text |-> "{n}h", n |-> hours_diff]]

\* calculate_timezone_difference as it would be if an unresolvable from_tz
\* were taken as UTC
calculate_timezone_difference_utc_fallback(from_tz, to_tz) ==
    IF ~KnownZone(to_tz)
    THEN [raised |-> FALSE, hours |-> 0, diff_str |-> [text |-> "tz-unavailable", n |-> 0]]
    ELSE LET from_offset == IF KnownZone(from_tz) THEN UtcOffsetMinutes[from_tz] ELSE 0
             hours_diff == TruncDiv((UtcOffsetMinutes[to_tz] - from_offset) * 60, 3600)
         IN  [raised |-> FALSE, hours |-> hours_diff,
              diff_str |->
                  IF hours_diff = 0 THEN [text |-> "no-difference", n |-> 0]
                  ELSE IF hours_diff > 0 THEN [text |-> "+{n}h", n |-> hours_diff]
                  ELSE [text |-> "{n}h", n |-> hours_diff]]

\* calculate_timezone_difference as it would be if it rounded to the nearest
\* hour (round(offset_diff / 3600), halves away from zero)
calculate_timezone_difference_round(from_tz, to_tz) ==
    IF ~(KnownZone(from_tz) /\ KnownZone(to_tz))
    THEN [raised |-> FALSE, hours |-> 0, diff_str |-> [text |-> "tz-unavailable", n |-> 0]]
    ELSE LET offset_diff == (UtcOffsetMinutes[to_tz] - UtcOffsetMinutes[from_tz]) * 60
             hours_diff == IF offset_diff >= 0 THEN (offset_diff + 1800) \div 3600
                           ELSE -((1800 - offset_diff) \div 3600)
         IN  [raised |-> FALSE, hours |-> hours_diff,
              diff_str |->
                  IF hours_diff = 0 THEN [text |-> "no-difference", n |-> 0]
                  ELSE IF hours_diff > 0 THEN [text |-> "+{n}h", n |-> hours_diff]
                  ELSE [text |-> "{n}h", n |-> hours_diff]]

\* calculate_timezone_difference(from_tz, to_tz).  raised tells whether an
\* exception left the function (both lookups of a zone are inside try blocks,
\* and nothing after them can fail).  diff_str is the label:
\* "no-difference" for the no-difference label, "+{n}h" for "+" followed by
\* the integer and the hour unit, "{n}h" for the integer's own text and the
\* unit, "tz-unavailable" for the placeholder of an unresolvable zone.
calculate_timezone_difference(from_tz, to_tz) ==
    IF ~(KnownZone(from_tz) /\ KnownZone(to_tz))
    THEN [raised |-> FALSE, hours |-> 0, diff_str |-> [text |-> "tz-unavailable", n |-> 0]]
    ELSE LET offset_diff == (UtcOffsetMinutes[to_tz] - UtcOffsetMinutes[from_tz]) * 60
             hours_diff == TruncDiv(offset_diff, 3600)
         IN  [raised |-> FALSE, hours |-> hours_diff,
              diff_str |->
                  IF hours_diff = 0 THEN [text |-> "no-difference", n |-> 0]
                  ELSE IF hours_diff > 0 THEN [text |-> "+{n}h", n |-> hours_diff]
                  ELSE [text |-> "{n}h", n |-> hours_diff]]

\* format_datetime_ja as it would be without the try blocks around the
\* lookup of the zone
format_datetime_ja_strict(tz_str, t) ==
    IF ~KnownZone(tz_str)
    THEN [raised |-> TRUE, text |-> "", local |-> 0]
    ELSE [raised |-> FALSE, text |-> "{y}/{m}/{d} ({w}) {H}:{M}",
          local |-> t + 60 * UtcOffsetMinutes[tz_str]]

\* format_datetime_ja(tz_str) at time t: the local time shown, in seconds;
\* "-" is the placeholder of an unresolvable zone
format_datetime_ja(tz_str, t) ==
    IF ~KnownZone(tz_str)
    THEN [raised |-> FALSE, text |-> "-", local |-> 0]
    ELSE [raised |-> FALSE, text |-> "{y}/{m}/{d} ({w}) {H}:{M}",
          local |-> t + 60 * UtcOffsetMinutes[tz_str]]

----------------------------------------------------------------------------
(* weather.py, as the dialogue controller sees it *)

\* forecast slots; precip_prob is <<>> for None and <<p>> for the percentage p,
\* temp is in tenths of a degree
Slot09 == [time |-> "09:00", icon |-> "sun", weather |-> "clear", temp |-> 123, precip_prob |-> <<10>>]

Slot12 == [time |-> "12:00", icon |-> "cloud", weather |-> "cloudy", temp |-> 151, precip_prob |-> <<>>]

\* what a call of get_tomorrow_weather_9_to_21 can do: return a triple
\* (from the cache or from upstream) or raise
WeatherOutcomes ==
    { [ok |-> TRUE, forecasts |-> <<>>, date_label |-> "D+1", header_label |-> "tomorrow", err |-> ""],
      [ok |-> TRUE, forecasts |-> <<Slot09, Slot12>>, date_label |-> "D", header_label |-> "tomorrow(today)", err |-> ""],
      [ok |-> FALSE, forecasts |-> <<>>, date_label |-> "", header_label |-> "", err |-> "HTTP Error 500"] }

\* get_tomorrow_weather_9_to_21(lat, lon, timezone_str): the arguments of the
\* call and its outcome
get_tomorrow_weather_9_to_21(lat, lon, timezone_str, wx) ==
    [args |-> [lat |-> lat, lon |-> lon, tz |-> timezone_str], out |-> wx]

----------------------------------------------------------------------------
(* line_client.py and the message texts of webhook_app.py *)

\* build_postback_action(label, data, display_text)
build_postback_action(label, data, display_text) ==
    [type |-> "action",
     action |-> [type |-> "postback", label |-> label, data |-> data,
                 displayText |-> IF display_text # "" THEN display_text ELSE label]]

\* build_quick_reply_message(text, items)
build_quick_reply_message(text, items) ==
    [type |-> "text", text |-> text, quickReply |-> [items |-> items]]

\* build_text_message(text)
build_text_message(text) == [type |-> "text", text |-> text]

\* the message of handle_menu_command
MenuMessage ==
    build_quick_reply_message(
        [tpl |-> "menu"],
        << build_postback_action("tz", "mode=tz", "tz"),
           build_postback_action("weather", "mode=weather", "weather") >>)

\* the prompts of handle_postback
TzPromptMessage == build_text_message([tpl |-> "tz-prompt"])

WeatherPromptMessage == build_text_message([tpl |-> "weather-prompt"])

\* the "no place found for <text>" messages of the tz and the weather mode
NotFoundMessage(mode, text) ==
    build_text_message([tpl |-> "not-found", mode |-> mode, input |-> text])

\* the confirmation of the origin and the prompt for the destination
FromConfirmMessage(place) ==
    build_text_message([tpl |-> "from-confirm", display_name |-> place.display_name])

\* the result block of the tz mode
TzResultMessage(from_place, to_place, diff_str, time_yours, time_dest) ==
    build_text_message(
        [tpl |-> "tz-result",
         from_name |-> from_place.display_name, from_tz |-> from_place.timezone,
         time_yours |-> time_yours,
         to_name |-> to_place.display_name, to_tz |-> to_place.timezone,
         time_dest |-> time_dest,
         diff_str |-> diff_str])

\* one line per forecast slot
ForecastLine(f) ==
    [time |-> f.time, icon |-> f.icon, weather |-> f.weather, temp |-> f.temp,
     pop_str |-> IF f.precip_prob # <<>>
                 THEN [text |-> "{p}%", p |-> f.precip_prob[1]]
                 ELSE [text |-> "unknown", p |-> 0]]

\* the weather result; where is the place's display name on the text path and
\* the coordinates on the location path
WeatherResultMessage(w, where) ==
    build_text_message(
        [tpl |-> "weather-result", header_label |-> w.header_label,
         date_label |-> w.date_label, where |-> where,
         lines |-> [i \in 1..Len(w.forecasts) |-> ForecastLine(w.forecasts[i])]])

\* the failure message, with str(e)
WeatherFailedMessage(err) ==
    build_text_message([tpl |-> "weather-failed", err |-> err])

\* str(e) of the error LineClient.send_reply raises
LineError == "LINE API error"

----------------------------------------------------------------------------
(* webhook_app.py: the handlers.                                            *)
(*                                                                          *)
(* A handler is an operator from the store, the event, the time t of the    *)
(* event and the answers of the collaborators to what the handler did:      *)
(*   store    the store afterwards                                          *)
(*   t        the time when the handler ends                                *)
(*   sends    the messages of the send_reply calls made, in order           *)
(*   oks      for each of these calls, whether it returned (TRUE) or raised *)
(*   raised   an exception left the handler                                 *)
(*   state    what state_store.get_state returned (None when not called)    *)
(*   resolver the queries of the resolve_place calls made                   *)
(*   resolved "" when resolve_place was not called, else "place", "absent"  *)
(*            (it returned None) or "raised"                                *)
(*   geo_calls  the requests sent to the geocoding upstream                 *)
(*   place    the place resolve_place returned, else None                   *)
(*   weather  the get_tomorrow_weather_9_to_21 calls made                   *)
(* rs[i] tells whether the i-th send_reply call returns (TRUE) or raises.   *)
(****************************************************************************)

\* a handler that called neither the resolver nor the weather provider
Plain(s, t, sends, oks, raised, state) ==
    [store |-> s, t |-> t, sends |-> sends, oks |-> oks, raised |-> raised,
     state |-> state, resolver |-> <<>>, resolved |-> "", geo_calls |-> 0,
     place |-> None, weather |-> <<>>]

\* a handler that called the resolver with `query` and got r
Resolved(s, t, sends, oks, raised, state, query, r) ==
    [store |-> s, t |-> t, sends |-> sends, oks |-> oks, raised |-> raised,
     state |-> state, resolver |-> <<query>>,
     resolved |-> IF r.raised THEN "raised" ELSE IF Falsy(r.ret) THEN "absent" ELSE "place",
     geo_calls |-> r.calls, place |-> r.ret, weather |-> <<>>]

\* handle_menu_command as it would be without the clear_state call
handle_menu_command_keeps_state(s, user_id, t, rs, state) ==
    Plain(s, t, <<MenuMessage>>, <<rs[1]>>, ~rs[1], state)

\* handle_menu_command as it would be if clearing an absent state raised
\* KeyError (a `del` without the membership test)
handle_menu_command_keyerror(s, user_id, t, rs, state) ==
    Plain(IF rs[1] THEN clear_state(s, user_id) ELSE s,
          t, <<MenuMessage>>, <<rs[1]>>, ~rs[1] \/ user_id \notin DOMAIN s, state)

\* handle_menu_command, called with the state `state` already read (or None)
handle_menu_command(s, user_id, t, rs, state) ==
    Plain(IF rs[1] THEN clear_state(s, user_id) ELSE s,
          t, <<MenuMessage>>, <<rs[1]>>, ~rs[1], state)

\* handle_postback
handle_postback(s, user_id, data, t, rs) ==
    IF data = "mode=tz"
    THEN Plain(set_state(s, user_id,
                         [mode |-> "tz", step |-> "from",
                          from_place |-> None, to_place |-> None], t),
               t, <<TzPromptMessage>>, <<rs[1]>>, ~rs[1], None)
    ELSE IF data = "mode=weather"
    THEN Plain(set_state(s, user_id,
                         [mode |-> "weather", step |-> "location",
                          location |-> None], t),
               t, <<WeatherPromptMessage>>, <<rs[1]>>, ~rs[1], None)
    ELSE Plain(s, t, <<>>, <<>>, FALSE, None)

\* the try/except block as it would be if the except branch did not clear
WeatherBlock_stuck(base, user_id, rs, lat, lon, tz, where, wx) ==
    LET call == get_tomorrow_weather_9_to_21(lat, lon, tz, wx)
        w == call.out
        s == base.store
    IN  IF w.ok /\ rs[1]
        THEN [base EXCEPT !.store = clear_state(s, user_id),
                          !.sends = <<WeatherResultMessage(w, where)>>, !.oks = <<TRUE>>,
                          !.weather = <<call>>]
        ELSE IF w.ok
        THEN [base EXCEPT !.sends = <<WeatherResultMessage(w, where), WeatherFailedMessage(LineError)>>,
                          !.oks = <<FALSE, rs[2]>>, !.raised = ~rs[2], !.weather = <<call>>]
        ELSE [base EXCEPT !.sends = <<WeatherFailedMessage(w.err)>>, !.oks = <<rs[1]>>,
                          !.raised = ~rs[1], !.weather = <<call>>]

\* the try/except block shared by the text path and the location path of the
\* weather mode: the provider call, the reply and clear_state.  base is the
\* handler's record up to the block.
WeatherBlock(base, user_id, rs, lat, lon, tz, where, wx) ==
    LET call == get_tomorrow_weather_9_to_21(lat, lon, tz, wx)
        w == call.out
        s == base.store
        done(sends, oks) ==
            [base EXCEPT !.store = IF oks[Len(oks)] THEN clear_state(s, user_id) ELSE s,
                         !.sends = sends, !.oks = oks,
                         !.raised = ~oks[Len(oks)], !.weather = <<call>>]
    IN  IF w.ok
        THEN IF rs[1]
             THEN done(<<WeatherResultMessage(w, where)>>, <<TRUE>>)
             \* send_reply raised inside the try block: the except branch runs
             ELSE done(<<WeatherResultMessage(w, where), WeatherFailedMessage(LineError)>>,
                       <<FALSE, rs[2]>>)
        ELSE done(<<WeatherFailedMessage(w.err)>>, <<rs[1]>>)

\* handle_text_message from the line after the get_state call on: s is the
\* store then, state what get_state returned; geo is the geocoding upstream's
\* answer, d the time resolve_place takes when it asks the upstream, wx the
\* weather outcome
handle_text_message_after_get(s, state, user_id, text, t, geo, d, wx, rs) ==
        IF Falsy(state)
        THEN handle_menu_command(s, user_id, t, rs, state)
        ELSE
        LET r == resolve_place(text, geo)
            t2 == IF r.calls > 0 THEN t + d ELSE t
            place == r.ret
            mode_is(m) == "mode" \in DOMAIN state /\ state["mode"] = m
            step_is(x) == "step" \in DOMAIN state /\ state["step"] = x
            \* the three ways that are the same in every branch
            failed == Resolved(s, t2, <<>>, <<>>, TRUE, state, text, r)
            reprompt(mode) ==
                Resolved(s, t2, <<NotFoundMessage(mode, text)>>, <<rs[1]>>, ~rs[1],
                         state, text, r)
            nothing == Plain(s, t, <<>>, <<>>, FALSE, state)
        IN  IF mode_is("tz") /\ step_is("from")
            THEN IF r.raised THEN failed
                 ELSE IF Falsy(place) THEN reprompt("tz")
                 ELSE Resolved(update_state(s, user_id,
                                            [from_place |-> place, step |-> "to"], t2),
                               t2, <<FromConfirmMessage(place)>>, <<rs[1]>>, ~rs[1],
                               state, text, r)
            ELSE IF mode_is("tz") /\ step_is("to")
            THEN IF r.raised THEN failed
                 ELSE IF Falsy(place) THEN reprompt("tz")
                 ELSE
                 LET from_place == Get(state, "from_place")
                 IN  IF from_place = None
                     \* from_place["timezone"] on None raises TypeError
                     THEN Resolved(s, t2, <<>>, <<>>, TRUE, state, text, r)
                     ELSE
                     LET from_tz == from_place.timezone
                         to_tz == place.timezone
                         diff == calculate_timezone_difference(from_tz, to_tz)
                         time_yours == format_datetime_ja(from_tz, t2)
                         time_dest == format_datetime_ja(to_tz, t2)
                         msg == TzResultMessage(from_place, place, diff.diff_str,
                                                time_yours, time_dest)
                     IN  IF diff.raised \/ time_yours.raised \/ time_dest.raised
                         \* an exception of the calculator would leave the handler
                         THEN failed
                         ELSE Resolved(IF rs[1] THEN clear_state(s, user_id) ELSE s,
                                       t2, <<msg>>, <<rs[1]>>, ~rs[1], state, text, r)
            ELSE IF mode_is("tz") THEN nothing
            ELSE IF mode_is("weather")
            THEN IF r.raised THEN failed
                 ELSE IF Falsy(place) THEN reprompt("weather")
                 ELSE WeatherBlock(Resolved(s, t2, <<>>, <<>>, FALSE, state, text, r),
                                   user_id, rs, place.lat, place.lon, place.timezone,
                                   [kind |-> "place", display_name |-> place.display_name,
                                    lat |-> 0, lon |-> 0], wx)
            ELSE nothing

\* handle_text_message
handle_text_message(s, user_id, text, t, geo, d, wx, rs) ==
    IF IsMenuText(text)
    THEN handle_menu_command(s, user_id, t, rs, None)
    ELSE LET g == get_state(s, user_id, t)
         IN  handle_text_message_after_get(g.store, g.ret, user_id, text, t, geo, d, wx, rs)

\* handle_location_message as it would be if it resolved the shared point to
\* a place first and used that place's zone
handle_location_message_lookup(s, user_id, latitude, longitude, t, wx, rs) ==
    LET g == get_state(s, user_id, t)
        state == g.ret
        r == resolve_place(<<"G", "l">>, [kind |-> "json", data |-> [results |-> <<RawGlasgow>>]])
    IN  IF Falsy(state) \/ ~("mode" \in DOMAIN state /\ state["mode"] = "weather")
        THEN handle_menu_command(g.store, user_id, t, rs, state)
        ELSE WeatherBlock(Resolved(g.store, t, <<>>, <<>>, FALSE, state, <<"G", "l">>, r),
                          user_id, rs, latitude, longitude, r.ret.timezone,
                          [kind |-> "location", display_name |-> <<>>,
                           lat |-> latitude, lon |-> longitude], wx)

\* handle_location_message from the line after the get_state call on
handle_location_message_after_get(s, state, user_id, latitude, longitude, t, wx, rs) ==
    IF Falsy(state) \/ ~("mode" \in DOMAIN state /\ state["mode"] = "weather")
    THEN handle_menu_command(s, user_id, t, rs, state)
    ELSE WeatherBlock(Plain(s, t, <<>>, <<>>, FALSE, state),
                      user_id, rs, latitude, longitude, "Asia/Tokyo",
                      [kind |-> "location", display_name |-> <<>>,
                       lat |-> latitude, lon |-> longitude], wx)

\* handle_location_message
handle_location_message(s, user_id, latitude, longitude, t, wx, rs) ==
    LET g == get_state(s, user_id, t)
    IN  handle_location_message_after_get(g.store, g.ret, user_id, latitude, longitude,
                                          t, wx, rs)

----------------------------------------------------------------------------
(* The state machine *)

PostbackData == {"mode=tz", "mode=weather", "mode=other"}

\* the coordinates a user shares (units of 0.0001 degree)
Locations == { [latitude |-> 356895, longitude |-> 1396917] }

\* the collaborators' answers assumed while it is not yet known whether the
\* handler asks for them
GeoFirst == [kind |-> "error"]

WeatherFirst == [ok |-> FALSE, forecasts |-> <<>>, date_label |-> "", header_label |-> "", err |-> "HTTP Error 500"]

AllFail == <<FALSE, FALSE>>

\* the outcomes of the send_reply calls of a handler when its first k calls
\* raise and the later ones return
SendOutcomes(k) == [i \in 1..2 |-> i > k]

NoEvent == [kind |-> "none"]

\* the name the dialogue machine gives to a stored state (or to None)
StateName(state) ==
    IF state = None THEN "NONE"
    ELSE IF DOMAIN state = {"mode", "step", "from_place", "to_place", "created_at", "updated_at"}
            /\ state["mode"] = "tz" /\ state["step"] = "from"
    THEN "TZ_AWAIT_FROM"
    ELSE IF DOMAIN state = {"mode", "step", "from_place", "to_place", "created_at", "updated_at"}
            /\ state["mode"] = "tz" /\ state["step"] = "to"
    THEN "TZ_AWAIT_TO"
    ELSE IF DOMAIN state = {"mode", "step", "location", "created_at", "updated_at"}
            /\ state["mode"] = "weather" /\ state["step"] = "location"
    THEN "WEATHER_AWAIT_LOCATION"
    ELSE "OTHER"

Stored(s, user_id) == IF user_id \in DOMAIN s THEN s[user_id] ELSE None

\* the record of the event just handled: the event, the user's stored state
\* before it (its name and its from_place), the name of the state get_state
\* returned (live) and what the handler did
Event(kind, user_id, input, s, r) ==
    [kind |-> kind, user |-> user_id, input |-> input,
     pre |-> StateName(Stored(s, user_id)),
     pre_from_place |-> IF user_id \in DOMAIN s THEN Get(s[user_id], "from_place") ELSE None,
     live |-> StateName(r.state),
     mode_unset |-> r.state # None /\ "mode" \notin DOMAIN r.state,
     sends |-> r.sends, oks |-> r.oks, raised |-> r.raised,
     resolver |-> r.resolver, resolved |-> r.resolved, geo_calls |-> r.geo_calls,
     place |-> r.place, weather |-> r.weather]

Init ==
    /\ now = 0
    /\ store = [u \in {} |-> None]
    /\ ev = NoEvent
    /\ mono = 0
    /\ weather_cache = EmptyDict
    /\ weather_cache_time = EmptyDict
    /\ upstream = EmptyDict
    /\ pending = EmptyDict

\* time passes between two events
Tick ==
    \E d \in TickSteps :
        /\ now + d <= MaxNow
        /\ now' = now + d
        /\ ev' = NoEvent
        /\ UNCHANGED <<store, pending, wvars>>

\* a postback event arrives and is handled
Postback ==
    \E u \in Users, data \in PostbackData :
      \E k \in 0..Len(handle_postback(store, u, data, now, AllFail).sends) :
        LET r == handle_postback(store, u, data, now, SendOutcomes(k))
        IN  /\ store' = r.store
            /\ now' = r.t
            /\ ev' = Event("postback", u, data, store, r)
            /\ UNCHANGED <<pending, wvars>>

\* a text message arrives and is handled.  The geocoding upstream answers (and
\* takes time) only when it is asked, the weather provider only when it is
\* called, and a send_reply call has an outcome only when it is made.
TextMessage ==
    \E u \in Users, text \in Texts :
      LET asks == handle_text_message(store, u, text, now, GeoFirst, 0, WeatherFirst, AllFail).geo_calls > 0
      IN
      \E geo \in (IF asks THEN GeoResponses ELSE {GeoFirst}),
         d \in (IF asks THEN Delays ELSE {0}) :
        LET calls == handle_text_message(store, u, text, now, geo, d, WeatherFirst, AllFail).weather # <<>>
        IN
        \E wx \in (IF calls THEN WeatherOutcomes ELSE {WeatherFirst}) :
          \E k \in 0..Len(handle_text_message(store, u, text, now, geo, d, wx, AllFail).sends) :
            LET r == handle_text_message(store, u, text, now, geo, d, wx, SendOutcomes(k))
            IN  /\ r.t <= MaxNow
                /\ store' = r.store
                /\ now' = r.t
                /\ ev' = Event("text", u, text, store, r)
                /\ UNCHANGED <<pending, wvars>>

\* a location message arrives and is handled
LocationMessage ==
    \E u \in Users, loc \in Locations :
      LET calls == handle_location_message(store, u, loc.latitude, loc.longitude, now, WeatherFirst, AllFail).weather # <<>>
      IN
      \E wx \in (IF calls THEN WeatherOutcomes ELSE {WeatherFirst}) :
        \E k \in 0..Len(handle_location_message(store, u, loc.latitude, loc.longitude, now, wx, AllFail).sends) :
          LET r == handle_location_message(store, u, loc.latitude, loc.longitude, now, wx, SendOutcomes(k))
          IN  /\ store' = r.store
              /\ now' = r.t
              /\ ev' = Event("location", u, loc, store, r)
              /\ UNCHANGED <<pending, wvars>>

Next == Tick \/ Postback \/ TextMessage \/ LocationMessage

Spec == Init /\ [][Next]_vars

----------------------------------------------------------------------------
(* Properties *)

\* the three states of the dialogue machine
Awaiting == {"TZ_AWAIT_FROM", "TZ_AWAIT_TO", "WEATHER_AWAIT_LOCATION"}

\* the texts of Texts that are menu triggers once trimmed and lower-cased
MenuInputs ==
    { <<" ", "M", "e", "n", "u", " ">>, <<"H", "E", "L", "P">>,
      <<"メ", "ニ", "ュ", "ー">>, <<"ヘ", "ル", "プ">> }

\* the user of the event just handled has no stored state
Cleared == ev.user \notin DOMAIN store

\* m is the menu: a quick reply offering the postbacks mode=tz and
\* mode=weather, in this order, and nothing else
IsMenuReply(m) ==
    /\ "quickReply" \in DOMAIN m
    /\ LET items == m.quickReply.items
       IN  /\ Len(items) = 2
           /\ \A i \in 1..2 : items[i].action.type = "postback"
           /\ items[1].action.data = "mode=tz"
           /\ items[2].action.data = "mode=weather"

\* m is a text message built from the template tpl
IsText(m, tpl) == "quickReply" \notin DOMAIN m /\ m.text.tpl = tpl

\* C1: handling an inbound event that carries a user id and a reply token
\* makes exactly one send_reply call, whatever the state and whatever place
\* resolution, weather retrieval and the reply call do.  Stated here for the
\* events the dialogue rules name (text, location, the postbacks mode=tz and
\* mode=weather) and a place resolver that returns.
C1_ExactlyOneReply ==
    ( /\ \/ ev.kind \in {"text", "location"}
         \/ ev.kind = "postback" /\ ev.input \in {"mode=tz", "mode=weather"}
      /\ ev.resolved # "raised" )
    => Len(ev.sends) = 1

C3_OnlyMachineStates ==
    \A u \in DOMAIN store : StateName(store[u]) \in Awaiting

\* C4: in each awaiting state a text the place resolver cannot resolve
\* produces the re-prompt naming the input and leaves the store exactly as
\* it was.
C4_RepromptKeepsState ==
    [][ (ev'.kind = "text" /\ ev'.live \in Awaiting /\ ev'.resolved = "absent")
        => /\ store' = store
           /\ ev'.user \in DOMAIN store'
           /\ StateName(store'[ev'.user]) = ev'.live
           /\ Len(ev'.sends) = 1
           /\ IsText(ev'.sends[1], "not-found")
           /\ ev'.sends[1].text.input = ev'.input ]_vars

C4_Witness ==
    /\ ev.kind = "text"
    /\ ev.live = "TZ_AWAIT_TO"
    /\ ev.resolved = "absent"
    /\ ev.geo_calls = 1
    /\ ev.user \in DOMAIN store
    /\ store[ev.user]["from_place"] # None
    /\ store[ev.user]["updated_at"] < now

\* C5: a text that resolves to a place in TZ_AWAIT_FROM leaves the user in
\* TZ_AWAIT_TO with from_place the resolved place, and the reply confirms the
\* place's display name.
C5_FromAdvancesToTo ==
    (ev.kind = "text" /\ ev.live = "TZ_AWAIT_FROM" /\ ev.resolved = "place")
    => /\ ev.user \in DOMAIN store
       /\ StateName(store[ev.user]) = "TZ_AWAIT_TO"
       /\ store[ev.user]["from_place"] = ev.place
       /\ Len(ev.sends) = 1
       /\ IsText(ev.sends[1], "from-confirm")
       /\ ev.sends[1].text.display_name = ev.place.display_name

WeatherReplyFits(w) ==
    /\ w.ok =>
         /\ IsText(ev.sends[1], "weather-result")
         /\ Len(ev.sends[1].text.lines) = Len(w.forecasts)
         /\ \A i \in 1..Len(w.forecasts) :
                ev.sends[1].text.lines[i].time = w.forecasts[i].time
         /\ (ev.oks[1] => Len(ev.sends) = 1)
    /\ ~w.ok =>
         /\ Len(ev.sends) = 1
         /\ IsText(ev.sends[1], "weather-failed")
         /\ ev.sends[1].text.err = w.err

C8_LocationSkipsResolver ==
    (ev.kind = "location" /\ ev.live = "WEATHER_AWAIT_LOCATION")
    => /\ ev.resolver = <<>>
       /\ ev.geo_calls = 0
       /\ Len(ev.weather) = 1
       /\ ev.weather[1].args =
              [lat |-> ev.input.latitude, lon |-> ev.input.longitude, tz |-> "Asia/Tokyo"]
       /\ WeatherReplyFits(ev.weather[1].out)
       /\ (~ev.raised => Cleared)

C8_Witness ==
    /\ ev.kind = "location"
    /\ ev.live = "WEATHER_AWAIT_LOCATION"
    /\ ev.weather[1].out.ok
    /\ Len(ev.weather[1].out.forecasts) = 2
    /\ ev.oks = <<TRUE>>
    /\ Cleared

\* C9: the postback mode=tz replaces the user's state by (tz, from) with both
\* places null and both timestamps the time of the event, and sends the first
\* prompt; mode=weather replaces it by (weather, location) and sends the
\* weather prompt; no field of the previous state is left.
C9_PostbackReplacesState ==
    /\ (ev.kind = "postback" /\ ev.input = "mode=tz")
       => /\ ev.user \in DOMAIN store
          /\ store[ev.user] =
                 [mode |-> "tz", step |-> "from", from_place |-> None,
                  to_place |-> None, created_at |-> now, updated_at |-> now]
          /\ Len(ev.sends) = 1
          /\ IsText(ev.sends[1], "tz-prompt")
    /\ (ev.kind = "postback" /\ ev.input = "mode=weather")
       => /\ ev.user \in DOMAIN store
          /\ store[ev.user] =
                 [mode |-> "weather", step |-> "location", location |-> None,
                  created_at |-> now, updated_at |-> now]
          /\ Len(ev.sends) = 1
          /\ IsText(ev.sends[1], "weather-prompt")

C9_Witness ==
    /\ ev.kind = "postback"
    /\ ev.input = "mode=weather"
    /\ ev.pre = "TZ_AWAIT_TO"
    /\ now > 0
    /\ StateName(store[ev.user]) = "WEATHER_AWAIT_LOCATION"

\* C10: a text that is no menu trigger, from a user for whom get_state returns
\* nothing (no state, or an expired one), gets the menu; nothing is raised
\* unless the reply call itself raises; the user has no stored state
\* afterwards.
C10_AbsentStateShowsMenu ==
    (ev.kind = "text" /\ ev.input \notin MenuInputs /\ ev.live = "NONE")
    => /\ Len(ev.sends) = 1
       /\ IsMenuReply(ev.sends[1])
       /\ (ev.oks[1] => ~ev.raised)
       /\ Cleared

C10_Witness ==
    /\ ev.kind = "text"
    /\ ev.input = <<"G", "l", "a", "s", "g", "o", "w">>
    /\ ev.pre = "TZ_AWAIT_FROM"
    /\ ev.live = "NONE"
    /\ ev.oks = <<TRUE>>
    /\ Cleared

\* C11: a stored, live state without mode is handled as no state is: a text
\* that is no menu trigger gets the menu and the user has no stored state
\* afterwards.
C11_ModeUnsetIsAbsent ==
    (ev.kind = "text" /\ ev.input \notin MenuInputs /\ ev.mode_unset)
    => /\ Len(ev.sends) = 1
       /\ IsMenuReply(ev.sends[1])
       /\ Cleared

----------------------------------------------------------------------------
(* The conversation state store on its own: the calls of its interface in   *)
(* any order, with time passing between them.                               *)

\* time passes for this long after each of the times of Epochs
StoreHorizon == 1500

\* the time that passes between two calls of the store
StoreTicks == {100, 300}

\* the first call is made at the creation of the state held, or when the
\* state held has been kept alive for all but 600 seconds of its lifetime
Epochs == {0, ttl_hours * 3600 - STATE_TIMEOUT_SECONDS}

\* a place as resolve_place returns it
PlaceGlasgow == resolve_place(<<"G", "l">>, [kind |-> "json", data |-> [results |-> <<RawGlasgow>>]]).ret

\* the dicts handle_postback passes to set_state
SetFields ==
    { [mode |-> "tz", step |-> "from", from_place |-> None, to_place |-> None],
      [mode |-> "weather", step |-> "location", location |-> None] }

\* the keyword arguments passed to update_state
MergeFields ==
    { [from_place |-> PlaceGlasgow, step |-> "to"],
      [location |-> PlaceGlasgow] }

\* clear_expired as it would be if it applied both expiry tests of get_state
clear_expired_both(s, t) ==
    [u \in {x \in DOMAIN s : ~is_expired(s[x], t) /\ ~is_timed_out(s[x], t)} |-> s[u]]

\* StateStore.clear_expired at time t
clear_expired(s, t) ==
    [u \in {x \in DOMAIN s : ~is_expired(s[x], t)} |-> s[u]]

\* the record of the call just made: the user's stored state before it
\* (pre), the fields passed and the value returned
StoreCall(kind, user_id, fields, ret) ==
    [kind |-> kind, user |-> user_id, pre |-> Stored(store, user_id),
     fields |-> fields, ret |-> ret, at |-> now]

\* the store is empty, or holds a state that merges made less than 600
\* seconds apart have kept alive since its creation at time 0
StoreInit ==
    /\ now \in Epochs
    /\ store \in
         {EmptyDict} \cup
         { [u \in {"u1"} |-> Put(Put(f, "created_at", 0), "updated_at", now)] :
             f \in {Update(g, k) : g \in SetFields, k \in MergeFields} \cup SetFields }
    /\ ev = NoEvent
    /\ mono = 0
    /\ weather_cache = EmptyDict
    /\ weather_cache_time = EmptyDict
    /\ upstream = EmptyDict
    /\ pending = EmptyDict

StoreTick ==
    \E d \in StoreTicks, e \in Epochs :
        /\ now >= e
        /\ now + d <= e + StoreHorizon
        /\ now' = now + d
        /\ ev' = NoEvent
        /\ UNCHANGED <<store, pending, wvars>>

StoreGet ==
    \E u \in Users :
        LET g == get_state(store, u, now)
        IN  /\ store' = g.store
            /\ ev' = StoreCall("get", u, EmptyDict, g.ret)
            /\ UNCHANGED <<now, pending, wvars>>

StoreSet ==
    \E u \in Users, f \in SetFields :
        /\ store' = set_state(store, u, f, now)
        /\ ev' = StoreCall("set", u, f, None)
        /\ UNCHANGED <<now, pending, wvars>>

StoreUpdate ==
    \E u \in Users, kw \in MergeFields :
        /\ store' = update_state(store, u, kw, now)
        /\ ev' = StoreCall("update", u, kw, None)
        /\ UNCHANGED <<now, pending, wvars>>

StoreClear ==
    \E u \in Users :
        /\ store' = clear_state(store, u)
        /\ ev' = StoreCall("clear", u, EmptyDict, None)
        /\ UNCHANGED <<now, pending, wvars>>

StoreSweep ==
    /\ store' = clear_expired(store, now)
    /\ ev' = [kind |-> "sweep", pre |-> store, at |-> now]
    /\ UNCHANGED <<now, pending, wvars>>

StoreNext == StoreTick \/ StoreGet \/ StoreSet \/ StoreUpdate \/ StoreClear \/ StoreSweep

StoreSpec == StoreInit /\ [][StoreNext]_vars

\* C12: a get for a user whose state was last updated more than 600 seconds
\* ago returns None and removes the state, however recent created_at is; a
\* get never returns a state last updated more than 600 seconds ago.
C12_IdleTimeoutRemoves ==
    /\ (ev.kind = "get" /\ ev.pre # None
        /\ ev.at - ev.pre["updated_at"] > STATE_TIMEOUT_SECONDS)
       => /\ ev.ret = None
          /\ ev.user \notin DOMAIN store
    /\ (ev.kind = "get" /\ ev.ret # None)
       => ~(ev.at - ev.ret["updated_at"] > STATE_TIMEOUT_SECONDS)

C12_Witness ==
    /\ ev.kind = "get"
    /\ ev.pre # None
    /\ ev.pre["created_at"] = ev.pre["updated_at"]
    /\ ev.at - ev.pre["updated_at"] = 700
    /\ ev.ret = None
    /\ ev.user \notin DOMAIN store

\* C13: a get for a user whose state was created more than 24 hours ago
\* returns None and removes the state even when it was updated recently; a
\* merge into a live state keeps created_at, so a state that a get returns
\* or a merge leaves is never older than 24 hours.
C13_MaxLifetime ==
    /\ (ev.kind = "get" /\ ev.pre # None
        /\ ev.at > ev.pre["created_at"] + 24 * 3600)
       => /\ ev.ret = None
          /\ ev.user \notin DOMAIN store
    /\ (ev.kind = "get" /\ ev.ret # None)
       => ev.at <= ev.ret["created_at"] + 24 * 3600
    /\ (ev.kind = "update")
       => /\ ev.at <= store[ev.user]["created_at"] + 24 * 3600
          /\ (ev.pre # None /\ store[ev.user]["created_at"] # ev.at)
             => store[ev.user]["created_at"] = ev.pre["created_at"]

C13_Witness ==
    /\ ev.kind = "get"
    /\ ev.pre # None
    /\ ev.pre["created_at"] = 0
    /\ ev.at = 24 * 3600 + 100
    /\ ev.at - ev.pre["updated_at"] = 100
    /\ ev.ret = None
    /\ ev.user \notin DOMAIN store

\* C14: update_state for a user without stored state stores exactly the given
\* fields with created_at and updated_at the time of the call; for a user
\* with a live state it overlays the given fields, keeps every other field
\* and created_at, and sets updated_at to the time of the call.
C14_MergeCreatesOrOverlays ==
    (ev.kind = "update")
    => LET new == store[ev.user]
           live == /\ ev.pre # None
                   /\ ev.at - ev.pre["updated_at"] < STATE_TIMEOUT_SECONDS
                   /\ ev.at <= ev.pre["created_at"] + 24 * 3600
       IN  /\ \A k \in DOMAIN ev.fields : new[k] = ev.fields[k]
           /\ new["updated_at"] = ev.at
           /\ (ev.pre = None)
              => /\ DOMAIN new = DOMAIN ev.fields \cup {"created_at", "updated_at"}
                 /\ new["created_at"] = ev.at
           /\ live
              => /\ DOMAIN new = DOMAIN ev.pre \cup DOMAIN ev.fields
                 /\ \A k \in DOMAIN ev.pre \ (DOMAIN ev.fields \cup {"updated_at"}) :
                        new[k] = ev.pre[k]
                 /\ new["created_at"] = ev.pre["created_at"]

C14_Witness ==
    /\ ev.kind = "update"
    /\ ev.pre # None
    /\ ev.pre["created_at"] = 0
    /\ ev.pre["updated_at"] = 300
    /\ ev.at = 800
    /\ "from_place" \in DOMAIN ev.fields
    /\ store[ev.user]["mode"] = "tz"
    /\ store[ev.user]["step"] = "to"
    /\ store[ev.user]["created_at"] = 0
    /\ store[ev.user]["updated_at"] = 800

----------------------------------------------------------------------------
(* weather.py: the fetch helper.                                            *)
(*                                                                          *)
(* A script is what the upstream does at each attempt of one call: attempt  *)
(* i takes script[i].took seconds and returns the JSON value                *)
(* script[i].data (ok) or raises an error with the text script[i].err.      *)
(* Waits are counted in quarters of a second, which makes the powers of     *)
(* the backoff bases 2.0 and 1.5 whole numbers.                             *)

\* the error texts str(e) of a failed attempt
ErrorTexts ==
    { "HTTP Error 500: Internal Server Error",
      "HTTP Error 429: Too Many Requests",
      "timed out" }

\* "429" in str(e)
Has429(err) == err = "HTTP Error 429: Too Many Requests"

\* the backoff bases the callers pass: 2.0 (weather) and the default 1.5
\* (geocode), as fractions
Backoffs == { [num |-> 2, den |-> 1], [num |-> 3, den |-> 2] }

RECURSIVE Pow(_, _)
Pow(b, n) == IF n = 0 THEN 1 ELSE b * Pow(b, n - 1)

\* backoff_sec ** (attempt - 1), in quarters of a second
BackoffWait(backoff, attempt) ==
    (4 * Pow(backoff.num, attempt - 1)) \div Pow(backoff.den, attempt - 1)

\* max(a, b)
Max(a, b) == IF a >= b THEN a ELSE b

\* the wait after the failed attempt number `attempt` as it would be if the
\* rate limit replaced the backoff by a shorter fixed wait
WaitAfter_short(backoff, attempt, err) ==
    IF Has429(err) THEN 4 * 6 ELSE BackoffWait(backoff, attempt)

\* the wait after the failed attempt number `attempt`, in quarters of a second
WaitAfter(backoff, attempt, err) ==
    LET wait == BackoffWait(backoff, attempt)
    IN  IF Has429(err) THEN Max(wait, 4 * 60) ELSE wait

\* raise last_err, with last_err None when the loop made no attempt
RaiseLast(last_err) ==
    IF last_err = "" THEN "TypeError: exceptions must derive from BaseException"
    ELSE last_err

\* the loop of fetch_json_with_retry from attempt number `attempt` on
RECURSIVE FetchLoop(_, _, _, _, _, _, _)
FetchLoop(script, retries, backoff, attempt, waits, took, last_err) ==
    IF attempt > retries
    THEN [attempts |-> attempt - 1, waits |-> waits, took |-> took,
          raised |-> TRUE, ret |-> None, err |-> RaiseLast(last_err)]
    ELSE LET o == script[attempt]
         IN  IF o.ok
             THEN [attempts |-> attempt, waits |-> waits, took |-> took + o.took,
                   raised |-> FALSE, ret |-> o.data, err |-> ""]
             ELSE FetchLoop(script, retries, backoff, attempt + 1,
                            Append(waits, WaitAfter(backoff, attempt, o.err)),
                            took + o.took, o.err)

\* fetch_json_with_retry as it would be if it returned an empty object when
\* every attempt failed
fetch_json_with_retry_fallback(script, retries, backoff) ==
    LET r == FetchLoop(script, retries, backoff, 1, <<>>, 0, "")
    IN  IF r.raised THEN [r EXCEPT !.raised = FALSE, !.ret = EmptyDict, !.err = ""] ELSE r

\* fetch_json_with_retry(url, timeout, retries, backoff_sec): the attempts
\* made, the waits made (quarters of a second), the seconds the attempts
\* took, and the value returned or the error raised
fetch_json_with_retry(script, retries, backoff) ==
    FetchLoop(script, retries, backoff, 1, <<>>, 0, "")

RECURSIVE SumSeq(_)
SumSeq(q) == IF q = <<>> THEN 0 ELSE Head(q) + SumSeq(Tail(q))

\* the seconds a call of fetch_json_with_retry lasts (rounded up)
FetchSeconds(r) == r.took + (SumSeq(r.waits) + 3) \div 4

----------------------------------------------------------------------------
(* weather.py: get_tomorrow_weather_9_to_21 with its cache.                 *)
(*                                                                          *)
(* A date is the number of the day (local seconds \div 86400); a time       *)
(* string of the upstream is the record of its date, its separator and its  *)
(* hour and minute.  Latitudes and longitudes are in units of 0.00001       *)
(* degree on input and of 0.0001 degree once rounded.                       *)

MORNING_CUTOFF_HOUR == 8

WEATHER_CACHE_TTL_SECONDS == 300

HeaderToday == "tomorrow(today)"

HeaderTomorrow == "tomorrow"

\* datetime.now(timezone.utc).astimezone(tz) at time t, in seconds
LocalSeconds(tz_str, t) == t + 60 * UtcOffsetMinutes[tz_str]

LocalHour(tz_str, t) == (LocalSeconds(tz_str, t) % 86400) \div 3600

LocalDate(tz_str, t) == LocalSeconds(tz_str, t) \div 86400

\* _target_date_and_header(tz_str) at time t
target_date_and_header(tz_str, t) ==
    IF 0 <= LocalHour(tz_str, t) /\ LocalHour(tz_str, t) < MORNING_CUTOFF_HOUR
    THEN [target_date |-> LocalDate(tz_str, t), header_label |-> HeaderToday]
    ELSE [target_date |-> LocalDate(tz_str, t) + 1, header_label |-> HeaderTomorrow]

\* round(x, 4) for x in units of 0.00001 that is not half-way between two
\* multiples of 0.0001
Round4(x) == IF x >= 0 THEN (x + 5) \div 10 ELSE -((-x + 5) \div 10)

\* the cache key
CacheKey(lat, lon, timezone_str, target_date) ==
    <<Round4(lat), Round4(lon), timezone_str, target_date>>

target_hours == <<"09:00", "12:00", "15:00", "18:00", "21:00">>

\* SlotIndex as it would be if the second search did not look at the date
SlotIndex_anydate(times, target_date, h) ==
    LET exact == {i \in 1..Len(times) : times[i] = [date |-> target_date, sep |-> "T", hm |-> h]}
        loose == {i \in 1..Len(times) : times[i].hm = h}
        first(S) == CHOOSE i \in S : \A j \in S : i <= j
    IN  IF exact # {} THEN first(exact)
        ELSE IF loose # {} THEN first(loose)
        ELSE 0

\* the index of the time string of hour h on target_date in times: the exact
\* string if present, else the first one of that date ending with h; 0 when
\* there is none
SlotIndex(times, target_date, h) ==
    LET exact == {i \in 1..Len(times) : times[i] = [date |-> target_date, sep |-> "T", hm |-> h]}
        loose == {i \in 1..Len(times) : times[i].date = target_date /\ times[i].hm = h}
        first(S) == CHOOSE i \in S : \A j \in S : i <= j
    IN  IF exact # {} THEN first(exact)
        ELSE IF loose # {} THEN first(loose)
        ELSE 0

RECURSIVE BuildForecasts(_, _, _)
BuildForecasts(hourly, target_date, k) ==
    IF k > Len(target_hours) THEN <<>>
    ELSE LET idx == SlotIndex(hourly.time, target_date, target_hours[k])
             rest == BuildForecasts(hourly, target_date, k + 1)
         IN  IF idx = 0 THEN rest
             ELSE << [time |-> hourly.time[idx].hm,
                      datetime |-> hourly.time[idx],
                      temp |-> hourly.temperature_2m[idx],
                      code |-> hourly.weathercode[idx]] >> \o rest

\* the hours of the day the upstream reports
UpstreamHours == <<"00:00", "09:00", "12:00", "15:00", "18:00", "21:00">>

\* the JSON answer of the weather upstream to a request made on local date
\* d0: three days of hourly values, the answer `sparse` without the 12:00
\* and 18:00 values, the answer `nohourly` without the hourly object, the
\* answer `noarrays` with an hourly object that has no arrays
WeatherJson(kind, d0) ==
    IF kind = "nohourly" THEN EmptyDict
    ELSE IF kind = "noarrays" THEN [hourly |-> EmptyDict]
    ELSE LET hours == IF kind = "sparse"
                      THEN <<"00:00", "09:00", "15:00", "21:00">>
                      ELSE UpstreamHours
             n == Len(hours)
         IN  [hourly |->
                [time |-> [i \in 1..(3 * n) |->
                              [date |-> d0 + ((i - 1) \div n), sep |-> "T",
                               hm |-> hours[((i - 1) % n) + 1]]],
                 temperature_2m |-> [i \in 1..(3 * n) |-> 100 + i],
                 weathercode |-> [i \in 1..(3 * n) |-> i % 4]]]

\* the date label, from the target date
DateLabel(target_date) == [tpl |-> "{y}-{m}-{d}({w})", date |-> target_date]

\* the lookup as it would be if it answered a failed fetch with the entry of
\* the key that is still in the cache, however old
tomorrow_weather_9_to_21_stale(cache, cache_time, lat, lon, timezone_str, t, ts, script) ==
    LET th == target_date_and_header(timezone_str, t)
        cache_key == CacheKey(lat, lon, timezone_str, th.target_date)
        base == [key |-> cache_key, hit |-> FALSE, fetch |-> <<>>, raised |-> FALSE,
                 err |-> "", ret |-> None, cache |-> cache, cache_time |-> cache_time,
                 seconds |-> 0]
    IN  IF cache_key \in DOMAIN cache
           /\ (ts - GetOr(cache_time, cache_key, 0)) < WEATHER_CACHE_TTL_SECONDS
        THEN [base EXCEPT !.hit = TRUE, !.ret = cache[cache_key]]
        ELSE
        LET f == fetch_json_with_retry(script, 3, [num |-> 2, den |-> 1])
            fetched == [base EXCEPT !.fetch = <<f>>, !.seconds = FetchSeconds(f)]
        IN  IF f.raised /\ cache_key \in DOMAIN cache
            THEN [fetched EXCEPT !.ret = cache[cache_key]]
            ELSE IF f.raised
            THEN [fetched EXCEPT !.raised = TRUE, !.err = f.err]
            ELSE IF "hourly" \notin DOMAIN f.ret
            THEN [fetched EXCEPT !.raised = TRUE, !.err = "KeyError: 'hourly'"]
            ELSE IF "time" \notin DOMAIN f.ret.hourly
            THEN [fetched EXCEPT !.raised = TRUE, !.err = "KeyError: 'time'"]
            ELSE IF "temperature_2m" \notin DOMAIN f.ret.hourly
            THEN [fetched EXCEPT !.raised = TRUE, !.err = "KeyError: 'temperature_2m'"]
            ELSE IF "weathercode" \notin DOMAIN f.ret.hourly
            THEN [fetched EXCEPT !.raised = TRUE, !.err = "KeyError: 'weathercode'"]
            ELSE
            LET triple == [forecasts |-> BuildForecasts(f.ret.hourly, th.target_date, 1),
                           date_label |-> DateLabel(th.target_date),
                           header_label |-> th.header_label]
            IN  [fetched EXCEPT !.ret = triple,
                                !.cache = Put(cache, cache_key, triple),
                                !.cache_time = Put(cache_time, cache_key, ts)]

\* get_tomorrow_weather_9_to_21(lat, lon, timezone_str) called at wall time
\* t and monotonic time ts, with the caches `cache` and `cache_time`; script
\* is what the upstream does if it is asked.  The result: the cache key,
\* whether the cache answered, the fetch made, the triple returned or the
\* error raised, the caches afterwards and the seconds the call lasted.
tomorrow_weather_9_to_21(cache, cache_time, lat, lon, timezone_str, t, ts, script) ==
    LET th == target_date_and_header(timezone_str, t)
        cache_key == CacheKey(lat, lon, timezone_str, th.target_date)
        base == [key |-> cache_key, hit |-> FALSE, fetch |-> <<>>, raised |-> FALSE,
                 err |-> "", ret |-> None, cache |-> cache, cache_time |-> cache_time,
                 seconds |-> 0]
    IN  IF cache_key \in DOMAIN cache
           /\ (ts - GetOr(cache_time, cache_key, 0)) < WEATHER_CACHE_TTL_SECONDS
        THEN [base EXCEPT !.hit = TRUE, !.ret = cache[cache_key]]
        ELSE
        LET f == fetch_json_with_retry(script, 3, [num |-> 2, den |-> 1])
            fetched == [base EXCEPT !.fetch = <<f>>, !.seconds = FetchSeconds(f)]
        IN  IF f.raised
            THEN [fetched EXCEPT !.raised = TRUE, !.err = f.err]
            ELSE IF "hourly" \notin DOMAIN f.ret
            THEN [fetched EXCEPT !.raised = TRUE, !.err = "KeyError: 'hourly'"]
            ELSE IF "time" \notin DOMAIN f.ret.hourly
            THEN [fetched EXCEPT !.raised = TRUE, !.err = "KeyError: 'time'"]
            ELSE IF "temperature_2m" \notin DOMAIN f.ret.hourly
            THEN [fetched EXCEPT !.raised = TRUE, !.err = "KeyError: 'temperature_2m'"]
            ELSE IF "weathercode" \notin DOMAIN f.ret.hourly
            THEN [fetched EXCEPT !.raised = TRUE, !.err = "KeyError: 'weathercode'"]
            ELSE
            LET triple == [forecasts |-> BuildForecasts(f.ret.hourly, th.target_date, 1),
                           date_label |-> DateLabel(th.target_date),
                           header_label |-> th.header_label]
            IN  [fetched EXCEPT !.ret = triple,
                                !.cache = Put(cache, cache_key, triple),
                                !.cache_time = Put(cache_time, cache_key, ts)]

----------------------------------------------------------------------------
(* The weather provider on its own: lookups one after another (the webhook  *)
(* handles one event at a time), with time passing between them and during  *)
(* the fetches.                                                             *)

\* the monotonic clock stops here
WeatherHorizon == 500

\* the time that passes between two lookups
WeatherTicks == {100, 200}

\* the wall-clock times (UTC) of the start: 03:00, 07:56:40 and 23:56:40
WeatherStarts == {3 * 3600, 8 * 3600 - 200, 86400 - 200}

WeatherZones == {"Europe/London", "Asia/Tokyo"}

\* the points asked for; they round to the same four decimals
Points ==
    { [lat |-> 5586421, lon |-> -425180],
      [lat |-> 5586424, lon |-> -425176] }

AttemptOk(kind, d0, took) ==
    [ok |-> TRUE, data |-> WeatherJson(kind, d0), err |-> "", took |-> took]

AttemptFailed(err, took) ==
    [ok |-> FALSE, data |-> EmptyDict, err |-> err, took |-> took]

\* what the upstream does when it is asked on local date d0: an immediate
\* answer (full, or without the hourly object); a 429 answer and,
\* after the wait of 60 seconds, an answer that takes 40 seconds; or three
\* 429 answers, each followed by the wait of 60 seconds
WeatherScripts(d0) ==
    { <<AttemptOk("full", d0, 0)>>,
      <<AttemptOk("nohourly", d0, 0)>>,
      <<AttemptOk("noarrays", d0, 0)>>,
      <<AttemptFailed("HTTP Error 429: Too Many Requests", 0), AttemptOk("full", d0, 40)>>,
      <<AttemptFailed("HTTP Error 429: Too Many Requests", 10),
        AttemptFailed("HTTP Error 429: Too Many Requests", 10),
        AttemptFailed("HTTP Error 429: Too Many Requests", 0)>> }

\* the script assumed while it is not yet known whether the upstream is asked
ScriptFirst == <<AttemptOk("nohourly", 0, 0)>>

WeatherInit ==
    /\ now \in WeatherStarts
    /\ mono = 0
    /\ weather_cache = EmptyDict
    /\ weather_cache_time = EmptyDict
    /\ upstream = EmptyDict
    /\ pending = EmptyDict
    /\ store = EmptyDict
    /\ ev = NoEvent

WeatherTick ==
    \E d \in WeatherTicks :
        /\ mono + d <= WeatherHorizon
        /\ mono' = mono + d
        /\ now' = now + d
        /\ ev' = NoEvent
        /\ UNCHANGED <<store, pending, weather_cache, weather_cache_time, upstream>>

\* what the fetch of a lookup brought: "none" when the upstream was not
\* asked, "failed" when every attempt failed, "incomplete" for an answer
\* without the hourly arrays, else "hourly"
AnswerKind(fetch) ==
    IF fetch = <<>> THEN "none"
    ELSE IF fetch[1].raised THEN "failed"
    ELSE IF \/ "hourly" \notin DOMAIN fetch[1].ret
            \/ ~({"time", "temperature_2m", "weathercode"} \subseteq DOMAIN fetch[1].ret.hourly)
    THEN "incomplete"
    ELSE "hourly"

\* one call of get_tomorrow_weather_9_to_21.  upstream keeps for each key
\* the last call of the fetch helper made for it: the monotonic time of the
\* lookup (at) and of its end (done), the attempts made, and whether the
\* answer was put into the cache; prev is that entry as it was before this
\* lookup.
Lookup ==
    \E p \in Points, tz \in WeatherZones :
      LET hit == tomorrow_weather_9_to_21(weather_cache, weather_cache_time,
                                          p.lat, p.lon, tz, now, mono, ScriptFirst).hit
      IN
      \E script \in (IF hit THEN {ScriptFirst} ELSE WeatherScripts(LocalDate(tz, now))) :
        \E r \in {tomorrow_weather_9_to_21(weather_cache, weather_cache_time,
                                           p.lat, p.lon, tz, now, mono, script)} :
            /\ mono + r.seconds <= WeatherHorizon
            /\ weather_cache' = r.cache
            /\ weather_cache_time' = r.cache_time
            /\ mono' = mono + r.seconds
            /\ now' = now + r.seconds
            /\ upstream' =
                 IF r.fetch = <<>> THEN upstream
                 ELSE Put(upstream, r.key,
                          [at |-> mono, done |-> mono + r.seconds,
                           attempts |-> r.fetch[1].attempts, cached |-> ~r.raised])
            /\ ev' = [kind |-> "lookup", key |-> r.key, tz |-> tz, at |-> mono,
                      wall |-> now, hit |-> r.hit, raised |-> r.raised, err |-> r.err,
                      ret |-> r.ret, prev |-> Get(upstream, r.key),
                      answer |-> AnswerKind(r.fetch),
                      attempts |-> IF r.fetch = <<>> THEN 0 ELSE r.fetch[1].attempts]
            /\ UNCHANGED <<store, pending>>

WeatherNext == WeatherTick \/ Lookup

WeatherSpec == WeatherInit /\ [][WeatherNext]_vars

\* C15: two lookups with the same cache key made less than 300 seconds apart
\* do not both ask the upstream, whatever the first fetch brought.
C15_OneUpstreamCallPerWindow ==
    (ev.kind = "lookup" /\ ev.attempts > 0 /\ ev.prev # None)
    => ev.at - ev.prev.at >= WEATHER_CACHE_TTL_SECONDS

\* C16: a lookup made less than 300 seconds after the entry of its key was
\* put into the cache is answered from the cache without asking the
\* upstream; a lookup made 300 seconds or more after that asks the upstream
\* and, when it gets forecasts, overwrites the entry.
C16_EntryExpiresAfterInsertion ==
    (ev.kind = "lookup" /\ ev.prev # None /\ ev.prev.cached)
    => /\ (ev.at - ev.prev.done < WEATHER_CACHE_TTL_SECONDS)
          => (ev.hit /\ ev.attempts = 0)
       /\ (ev.at - ev.prev.done >= WEATHER_CACHE_TTL_SECONDS)
          => /\ ~ev.hit
             /\ ev.attempts > 0
             /\ ~ev.raised => weather_cache_time[ev.key] = ev.at

\* C17: every triple a lookup returns, from the cache or from the upstream,
\* has the "today" header and today's date when the local hour at the time
\* of the call is before 8, and the "tomorrow" header and tomorrow's date
\* otherwise.
C17_HeaderFollowsLocalHour ==
    (ev.kind = "lookup" /\ ~ev.raised)
    => LET local == ev.wall + 60 * UtcOffsetMinutes[ev.tz]
           hour == (local % 86400) \div 3600
           today == local \div 86400
       IN  IF hour < 8
           THEN /\ ev.ret.header_label = HeaderToday
                /\ ev.ret.date_label.date = today
           ELSE /\ ev.ret.header_label = HeaderTomorrow
                /\ ev.ret.date_label.date = today + 1

----------------------------------------------------------------------------
(* The fetch helper on its own: one call after another, for every value of  *)
(* retries up to 3, both backoff bases and every course of three attempts.  *)

\* the values of the retries parameter: 2 (geocode), 3 (weather, default)
\* and the smaller ones
RetriesValues == 0..3

\* what one attempt can bring
AttemptOutcomes ==
    { AttemptOk("full", 0, 0), AttemptOk("nohourly", 0, 0) }
    \cup { AttemptFailed(e, IF e = "timed out" THEN 30 ELSE 0) : e \in ErrorTexts }

\* what the upstream would do at the attempts 1, 2 and 3
FetchScripts == [1..3 -> AttemptOutcomes]

FetchInit ==
    /\ now = 0
    /\ store = EmptyDict
    /\ ev = NoEvent
    /\ mono = 0
    /\ weather_cache = EmptyDict
    /\ weather_cache_time = EmptyDict
    /\ upstream = EmptyDict
    /\ pending = EmptyDict

\* one call of fetch_json_with_retry
FetchCall ==
    \E retries \in RetriesValues, backoff \in Backoffs, script \in FetchScripts :
      \E r \in {fetch_json_with_retry(script, retries, backoff)} :
        /\ ev' = [kind |-> "fetch", retries |-> retries, backoff |-> backoff,
                  script |-> script, attempts |-> r.attempts, waits |-> r.waits,
                  raised |-> r.raised, ret |-> r.ret, err |-> r.err]
        /\ UNCHANGED <<now, store, pending, wvars>>

FetchNext == FetchCall

FetchSpec == FetchInit /\ [][FetchNext]_vars

\* the attempts among the first `retries` ones that succeed
Succeeding(script, retries) == {i \in 1..retries : script[i].ok}

\* C18: a call makes at most `retries` attempts, and so at most 3; it returns
\* the answer of the first attempt that succeeds and makes no attempt after
\* it; when all its attempts fail it raises the error of the last one; what
\* it returns is always the answer of an attempt.
C18_FetchReturnsFirstSuccessOrRaisesLast ==
    (ev.kind = "fetch")
    => LET ok == Succeeding(ev.script, ev.retries)
       IN  /\ ev.attempts <= ev.retries
           /\ ev.attempts <= 3
           /\ (ok # {})
              => /\ ~ev.raised
                 /\ \A i \in ok : ev.attempts <= i
                 /\ ev.attempts \in ok
                 /\ ev.ret = ev.script[ev.attempts].data
           /\ (ok = {})
              => /\ ev.raised
                 /\ ev.attempts = ev.retries
                 /\ (ev.retries > 0) => ev.err = ev.script[ev.retries].err

C18_Witness ==
    /\ ev.kind = "fetch"
    /\ ev.retries = 3
    /\ ~ev.script[1].ok
    /\ ~ev.script[2].ok
    /\ ~ev.script[3].ok
    /\ ev.script[2].err # ev.script[3].err
    /\ ev.raised
    /\ ev.attempts = 3
    /\ ev.err = "timed out"

\* C19: the wait after the failed attempt k is backoff ** (k - 1) seconds,
\* and max(backoff ** (k - 1), 60) seconds when the error text holds 429;
\* every failed attempt, the last one too, is followed by its wait.  In
\* quarters of a second: 4, 8, 16 for the base 2 and 240 with a 429.
C19_BackoffWaits ==
    (ev.kind = "fetch")
    => /\ Len(ev.waits) = (IF ev.raised THEN ev.retries ELSE ev.attempts - 1)
       /\ \A k \in 1..Len(ev.waits) :
            LET b == ev.backoff
                plain == CASE k = 1 -> 4
                           [] k = 2 -> (4 * b.num) \div b.den
                           [] k = 3 -> (4 * b.num * b.num) \div (b.den * b.den)
            IN  ev.waits[k] =
                  IF ev.script[k].err = "HTTP Error 429: Too Many Requests"
                  THEN (IF plain >= 240 THEN plain ELSE 240)
                  ELSE plain

C19_Witness ==
    /\ ev.kind = "fetch"
    /\ ev.retries = 3
    /\ ev.backoff = [num |-> 2, den |-> 1]
    /\ ev.raised
    /\ ev.waits = <<4, 240, 16>>

\* the queries of fewer than 2 characters
ShortQueries == { <<>>, <<"x">>, <<" ">> }

\* C20: for a query of fewer than 2 characters resolve_place returns None
\* and sends nothing to the geocoding upstream, whatever the upstream would
\* answer; a text of fewer than 2 characters in an awaiting state gets the
\* re-prompt, and no request is sent.
C20_ShortQueryNoUpstreamCall ==
    /\ \A q \in ShortQueries, geo \in GeoResponses :
          /\ resolve_place(q, geo).ret = None
          /\ ~resolve_place(q, geo).raised
          /\ resolve_place(q, geo).calls = 0
    /\ (ev.kind = "text" /\ ev.live \in Awaiting /\ Len(ev.input) < 2)
       => /\ ev.resolver = <<ev.input>>
          /\ ev.resolved = "absent"
          /\ ev.geo_calls = 0
          /\ Len(ev.sends) = 1
          /\ IsText(ev.sends[1], "not-found")
          /\ ev.sends[1].text.input = ev.input
          /\ ev.weather = <<>>

C20_Witness ==
    /\ ev.kind = "text"
    /\ ev.live = "WEATHER_AWAIT_LOCATION"
    /\ ev.input = <<>>
    /\ ev.resolved = "absent"
    /\ ev.geo_calls = 0
    /\ ev.oks = <<TRUE>>
    /\ ev.user \in DOMAIN store

----------------------------------------------------------------------------
(* The resolver's failures *)

\* C21: resolve_place never raises to its caller: whatever the geocoding
\* upstream does (candidates, no candidates, an answer that is malformed, an
\* error on every attempt), it returns a place built from the first candidate
\* or None.
C21_ResolverNeverRaises ==
    (ev.kind = "text" /\ ev.resolver # <<>>)
    => /\ ev.resolved \in {"place", "absent"}
       /\ ev.resolved = "absent" => ev.place = None
       /\ ev.resolved = "place" => ev.place # None

----------------------------------------------------------------------------
(* The timezone calculator on its own: calls of the two functions at         *)
(* different instants, for zones of whole and fractional offsets and for     *)
(* identifiers no zone database resolves.                                    *)

\* the identifiers tried: the zones of UtcOffsetMinutes, an identifier that
\* names no zone, and the empty identifier
ZoneIds == DOMAIN UtcOffsetMinutes \cup {"Mars/Olympus", ""}

TzInit ==
    /\ now = 0
    /\ ev = NoEvent
    /\ store = [u \in {} |-> None]
    /\ mono = 0
    /\ weather_cache = EmptyDict
    /\ weather_cache_time = EmptyDict
    /\ upstream = EmptyDict
    /\ pending = EmptyDict

TzTick ==
    \E d \in TickSteps :
        /\ now + d <= MaxNow
        /\ now' = now + d
        /\ UNCHANGED <<ev, store, pending, wvars>>

\* one call calculate_timezone_difference(from_tz, to_tz), the call with the
\* arguments exchanged at the same instant, and format_datetime_ja(to_tz)
TzCall ==
    \E from_tz \in ZoneIds, to_tz \in ZoneIds :
        /\ ev' = [kind |-> "tz", from_tz |-> from_tz, to_tz |-> to_tz, at |-> now,
                  diff |-> calculate_timezone_difference(from_tz, to_tz),
                  back |-> calculate_timezone_difference(to_tz, from_tz),
                  label |-> format_datetime_ja(to_tz, now)]
        /\ UNCHANGED <<now, store, pending, wvars>>

TzNext == TzTick \/ TzCall

TzSpec == TzInit /\ [][TzNext]_vars

\* C22: the offset is antisymmetric: offset(A, B) = -offset(B, A) for every
\* pair of identifiers at one instant, zones whose offsets differ by a
\* fraction of an hour and unresolvable identifiers included.
C22_OffsetAntisymmetric ==
    ev.kind = "tz" => ev.diff.hours = -ev.back.hours

C22_Witness ==
    /\ ev.kind = "tz"
    /\ ev.from_tz = "America/St_Johns"
    /\ ev.to_tz = "Asia/Kolkata"
    /\ ev.diff.hours = 9
    /\ ev.back.hours = -9

\* C23: the hours are the difference of the two UTC offsets truncated toward
\* zero (+5h30 gives 5, -5h30 gives -5), and the label is the no-difference
\* label exactly when the hours are 0, has an explicit + exactly when they are
\* positive, and is the integer's own text (with its minus) when negative.
C23_TruncatedOffsetAndLabel ==
    (ev.kind = "tz" /\ KnownZone(ev.from_tz) /\ KnownZone(ev.to_tz))
    => LET minutes == UtcOffsetMinutes[ev.to_tz] - UtcOffsetMinutes[ev.from_tz]
           h == ev.diff.hours
       IN  /\ minutes >= 0 => (60 * h <= minutes /\ minutes < 60 * (h + 1))
           /\ minutes <= 0 => (60 * (h - 1) < minutes /\ minutes <= 60 * h)
           /\ ev.diff.diff_str.n = h
           /\ ev.diff.diff_str.text = "no-difference" <=> h = 0
           /\ ev.diff.diff_str.text = "+{n}h" <=> h > 0
           /\ ev.diff.diff_str.text = "{n}h" <=> h < 0

C23_Witness ==
    /\ ev.kind = "tz"
    /\ ev.from_tz = "Asia/Kolkata"
    /\ ev.to_tz = "UTC"
    /\ ev.diff.hours = -5
    /\ ev.diff.diff_str = [text |-> "{n}h", n |-> -5]
    /\ ev.back.hours = 5
    /\ ev.back.diff_str = [text |-> "+{n}h", n |-> 5]

\* C24: the calculator never raises: for an identifier that cannot be
\* resolved calculate_timezone_difference returns 0 with the placeholder
\* text and format_datetime_ja returns its placeholder, so a text that
\* resolves to a place in TZ_AWAIT_TO still gets the result reply and the
\* state is cleared when one of the two zones cannot be resolved.
C24_CalculatorNeverRaises ==
    /\ \A a \in ZoneIds, b \in ZoneIds :
          /\ ~calculate_timezone_difference(a, b).raised
          /\ ~format_datetime_ja(a, now).raised
          /\ ~(KnownZone(a) /\ KnownZone(b))
             => /\ calculate_timezone_difference(a, b).hours = 0
                /\ calculate_timezone_difference(a, b).diff_str.text = "tz-unavailable"
          /\ ~KnownZone(a) => format_datetime_ja(a, now).text = "-"
    /\ (/\ ev.kind = "text" /\ ev.live = "TZ_AWAIT_TO" /\ ev.resolved = "place"
        /\ ~(KnownZone(ev.place.timezone) /\ KnownZone(ev.pre_from_place.timezone)))
       => /\ Len(ev.sends) = 1
          /\ IsText(ev.sends[1], "tz-result")
          /\ ev.sends[1].text.diff_str.text = "tz-unavailable"
          /\ ~KnownZone(ev.place.timezone) => ev.sends[1].text.time_dest.text = "-"
          /\ ~KnownZone(ev.pre_from_place.timezone) => ev.sends[1].text.time_yours.text = "-"
          /\ (ev.oks[1] => ~ev.raised /\ Cleared)

C24_Witness ==
    /\ ev.kind = "text"
    /\ ev.live = "TZ_AWAIT_TO"
    /\ ev.resolved = "place"
    /\ ev.pre_from_place.timezone = "Europe/London"
    /\ ev.place.timezone = "Mars/Olympus"
    /\ ev.oks = <<TRUE>>
    /\ ev.user \notin DOMAIN store

----------------------------------------------------------------------------
(* Handlers of different users running at the same time.  The handlers of   *)
(* one user still run one after the other; the handlers of two users are    *)
(* interleaved at their store operations: a handler's first store operation *)
(* (get_state, or none for a menu command) is one step, and everything      *)
(* after it (the collaborators' calls, the reply, update_state or           *)
(* clear_state) is a later step.  A postback makes one store operation.     *)

ConcUsers == {"u1", "u2"}

ConcTicks == {300}

ConcTexts == { <<"m", "e", "n", "u">>, <<"G", "l", "a", "s", "g", "o", "w">> }

ConcGeo == { [kind |-> "error"], [kind |-> "json", data |-> [results |-> <<RawGlasgow>>]] }

ConcData == {"mode=tz", "mode=weather"}

\* the store as it would be if only user_id had ever sent events
Alone(s, user_id) == [u \in DOMAIN s \cap {user_id} |-> s[u]]

\* the first store operation of a handler for the event (kind, input):
\* what is kept for the handler's later step, and the store
FirstOp(s, user_id, kind, input, t) ==
    IF kind = "text" /\ IsMenuText(input)
    THEN [store |-> s,
          kept |-> [kind |-> kind, input |-> input, got |-> FALSE, state |-> None]]
    ELSE LET g == get_state(s, user_id, t)
         IN  [store |-> g.store,
              kept |-> [kind |-> kind, input |-> input, got |-> TRUE, state |-> g.ret]]

\* the handler's steps after its first store operation
Rest(s, p, user_id, t, geo, wx, rs) ==
    IF p.kind = "text"
    THEN IF p.got
         THEN handle_text_message_after_get(s, p.state, user_id, p.input, t, geo, 0, wx, rs)
         ELSE handle_menu_command(s, user_id, t, rs, None)
    ELSE handle_location_message_after_get(s, p.state, user_id, p.input.latitude,
                                           p.input.longitude, t, wx, rs)

\* the record of a step made for user_id: what it kept, sent and left stored
\* for the user, and the same for the step made on the store Alone(s, user_id)
ConcEvent(kind, user_id, kept, r, kept_alone, r_alone) ==
    [kind |-> kind, user |-> user_id,
     kept |-> kept, sends |-> r.sends, raised |-> r.raised,
     alone |-> [kept |-> kept_alone, sends |-> r_alone.sends, raised |-> r_alone.raised,
                state |-> Stored(r_alone.store, user_id)]]

ConcInit ==
    /\ now = 0
    /\ store = EmptyDict
    /\ pending = EmptyDict
    /\ ev = NoEvent
    /\ mono = 0
    /\ weather_cache = EmptyDict
    /\ weather_cache_time = EmptyDict
    /\ upstream = EmptyDict

ConcTick ==
    \E d \in ConcTicks :
        /\ now + d <= MaxNow
        /\ now' = now + d
        /\ ev' = NoEvent
        /\ UNCHANGED <<store, pending, wvars>>

\* a postback of a user without a handler in flight
ConcPostback ==
    \E u \in ConcUsers \ DOMAIN pending, data \in ConcData, k \in 0..1 :
      \E r \in {handle_postback(store, u, data, now, SendOutcomes(k))},
         r_alone \in {handle_postback(Alone(store, u), u, data, now, SendOutcomes(k))} :
        /\ store' = r.store
        /\ ev' = ConcEvent("postback", u, None, r, None, r_alone)
        /\ UNCHANGED <<now, pending, wvars>>

\* a text or location message of a user without a handler in flight arrives,
\* and its handler makes its first store operation
ConcBegin ==
    \E u \in ConcUsers \ DOMAIN pending :
      \E e \in ({"text"} \X ConcTexts) \cup ({"location"} \X Locations) :
        \E f \in {FirstOp(store, u, e[1], e[2], now)},
           f_alone \in {FirstOp(Alone(store, u), u, e[1], e[2], now)} :
          /\ store' = f.store
          /\ pending' = Put(pending, u, f.kept)
          /\ ev' = ConcEvent("begin", u, f.kept,
                             [sends |-> <<>>, raised |-> FALSE],
                             f_alone.kept,
                             [sends |-> <<>>, raised |-> FALSE, store |-> f_alone.store])
          /\ UNCHANGED <<now, wvars>>

\* the handler in flight of a user makes the rest of its steps
ConcFinish ==
    \E u \in DOMAIN pending, geo \in ConcGeo, wx \in WeatherOutcomes, k \in 0..1 :
      \E r \in {Rest(store, pending[u], u, now, geo, wx, SendOutcomes(k))},
         r_alone \in {Rest(Alone(store, u), pending[u], u, now, geo, wx, SendOutcomes(k))} :
        /\ store' = r.store
        /\ pending' = Del(pending, u)
        /\ ev' = ConcEvent("finish", u, None, r, None, r_alone)
        /\ UNCHANGED <<now, wvars>>

ConcNext == ConcTick \/ ConcPostback \/ ConcBegin \/ ConcFinish

ConcSpec == ConcInit /\ [][ConcNext]_vars

----------------------------------------------------------------------------
(* One handler step by step: the attempts and the waits of the fetch loops  *)
(* of resolve_place and of the weather lookup, and the reply calls.  The    *)
(* handler in flight is pending[u]:                                         *)
(*   event     "menu", "tz", "weather" (texts) or "location"                *)
(*   stage     "geocode" or "weather" (inside that fetch loop) or "reply"   *)
(*   pc        inside a fetch loop: "attempt" (before urlopen) or "sleep"   *)
(*   attempt, retries, backoff, last_err   the loop's variables             *)
(*   geo_attempts, weather_attempts        the requests made so far         *)
(*   waits     the sleeps made so far (quarters of a second)                *)
(*   sends     the send_reply calls made so far                             *)
(*   in_try    the next reply is made inside the weather try block          *)

\* the guards stop the run here (the bound is never reached)
MaxAttempts == 8

RunEvents == {"menu", "tz", "weather", "location"}

\* the loop variable after the failed attempt number `attempt` as it would be
\* if a rate-limited attempt were made again without being counted
NextAttempt_retry429(retries, attempt, err) ==
    IF Has429(err) THEN attempt
    ELSE IF attempt < retries THEN attempt + 1 ELSE 0

\* `for attempt in range(1, retries + 1)`: the attempt that follows the
\* failed attempt number `attempt`, or 0 when the loop is over
NextAttempt(retries, attempt, err) ==
    IF attempt < retries THEN attempt + 1 ELSE 0

\* the handler enters the fetch loop of resolve_place (retries=2, default
\* backoff 1.5) or of the weather lookup (retries=3, backoff 2.0)
EnterLoop(p, stage) ==
    [p EXCEPT !.stage = stage, !.pc = "attempt", !.attempt = 1, !.last_err = "",
              !.retries = IF stage = "geocode" THEN 2 ELSE 3,
              !.backoff = IF stage = "geocode" THEN [num |-> 3, den |-> 2]
                          ELSE [num |-> 2, den |-> 1]]

\* the handler goes on to a send_reply call
ToReply(p, in_try) == [p EXCEPT !.stage = "reply", !.pc = "", !.in_try = in_try]

RunInit ==
    /\ now = 0
    /\ store = EmptyDict
    /\ pending = EmptyDict
    /\ ev = NoEvent
    /\ mono = 0
    /\ weather_cache = EmptyDict
    /\ weather_cache_time = EmptyDict
    /\ upstream = EmptyDict

\* the handler goes on as p
RunGo(u, p) ==
    /\ pending' = Put(pending, u, p)
    /\ UNCHANGED <<now, store, ev, wvars>>

\* the handler returns, or an exception leaves it
RunEnd(u, p, raised) ==
    /\ pending' = Del(pending, u)
    /\ ev' = [kind |-> "run", user |-> u, event |-> p.event,
              geo_attempts |-> p.geo_attempts, weather_attempts |-> p.weather_attempts,
              waits |-> p.waits, sends |-> p.sends, raised |-> raised]
    /\ UNCHANGED <<now, store, wvars>>

\* an event arrives while no handler runs, and its handler runs up to its
\* first upstream request or reply: a menu command (or a text without a
\* live state, or a query of less than 2 characters) replies at once; a text
\* in an awaiting state asks the geocoding upstream; a location asks the
\* weather upstream unless the cache answers
RunStart ==
    \E u \in Users, e \in RunEvents, short \in BOOLEAN, hit \in BOOLEAN :
        LET p == [event |-> e, stage |-> "", pc |-> "", attempt |-> 0, retries |-> 0,
                  backoff |-> [num |-> 1, den |-> 1], last_err |-> "",
                  geo_attempts |-> 0, weather_attempts |-> 0, waits |-> <<>>,
                  sends |-> 0, in_try |-> FALSE]
        IN  /\ u \notin DOMAIN pending
            /\ pending' = Put(pending, u,
                    IF e = "menu" \/ (e \in {"tz", "weather"} /\ short)
                    THEN ToReply(p, FALSE)
                    ELSE IF e = "location"
                    THEN IF hit THEN ToReply(p, TRUE) ELSE EnterLoop(p, "weather")
                    ELSE EnterLoop(p, "geocode"))
            /\ ev' = NoEvent
            /\ UNCHANGED <<now, store, wvars>>

\* one attempt of the fetch loop: urlopen returns an answer and the loop is
\* left, or it raises (its timeout included) and the loop goes to its sleep
RunAttempt ==
    \E u \in DOMAIN pending :
      LET p == pending[u]
          q == IF p.stage = "geocode"
               THEN [p EXCEPT !.geo_attempts = @ + 1]
               ELSE [p EXCEPT !.weather_attempts = @ + 1]
      IN  /\ p.stage \in {"geocode", "weather"}
          /\ p.pc = "attempt"
          /\ p.geo_attempts + p.weather_attempts < MaxAttempts
          /\ \/ \E err \in ErrorTexts :
                   RunGo(u, [q EXCEPT !.pc = "sleep", !.last_err = err])
             \/ /\ p.stage = "geocode"
                /\ \/ RunEnd(u, q, TRUE)                    \* no JSON object: AttributeError
                   \/ RunGo(u, ToReply(q, FALSE))           \* no candidate, or a tz turn
                   \/ /\ p.event = "weather"
                      /\ \/ RunGo(u, ToReply(q, TRUE))      \* the cache answers
                         \/ RunGo(u, EnterLoop(q, "weather"))
             \/ /\ p.stage = "weather"
                /\ \/ RunGo(u, ToReply(q, TRUE))            \* the forecast
                   \/ RunGo(u, ToReply(q, FALSE))           \* no hourly arrays: except branch

\* the sleep after a failed attempt, and the loop's next turn: the next
\* attempt, or `raise last_err`, which search_place turns into no candidates
\* and the weather try block into the failure reply
RunSleep ==
    \E u \in DOMAIN pending :
      LET p == pending[u]
          q == [p EXCEPT !.waits = Append(@, WaitAfter(p.backoff, p.attempt, p.last_err))]
          n == NextAttempt(p.retries, p.attempt, p.last_err)
      IN  /\ p.stage \in {"geocode", "weather"}
          /\ p.pc = "sleep"
          /\ IF n # 0
             THEN RunGo(u, [q EXCEPT !.pc = "attempt", !.attempt = n])
             ELSE RunGo(u, ToReply(q, FALSE))

\* a send_reply call (one request with a timeout, no retry): it returns and
\* the handler ends, or it raises; inside the weather try block the except
\* branch then makes the second call
RunReply ==
    \E u \in DOMAIN pending, ok \in BOOLEAN :
      LET p == pending[u]
          q == [p EXCEPT !.sends = @ + 1]
      IN  /\ p.stage = "reply"
          /\ IF ok THEN RunEnd(u, q, FALSE)
             ELSE IF p.in_try THEN RunGo(u, ToReply(q, FALSE))
             ELSE RunEnd(u, q, TRUE)

\* the steps of the handler in flight
RunStep == RunAttempt \/ RunSleep \/ RunReply

RunNext == RunStart \/ RunAttempt \/ RunSleep \/ RunReply

RunSpec == RunInit /\ [][RunNext]_vars

\* Every call the handler waits in ends: urlopen has a timeout (10 s for the
\* geocoding upstream, 30 s for the weather upstream, 20 s for the reply)
\* and time.sleep is given a finite wait; so a handler that can take a step
\* takes it.
RunFairSpec == RunSpec /\ WF_vars(RunStep)

\* C26: the handling of every event terminates: a fetch loop makes at most
\* `retries` attempts (2 for the geocoding upstream, 3 for the weather
\* upstream) and one wait per failed attempt, a handler makes at most two
\* reply calls, and every handler that has started ends, returning or
\* raising, whatever the upstream answers.
C26_HandlerTerminates ==
    /\ [](\A u \in DOMAIN pending :
            /\ pending[u].geo_attempts <= 2
            /\ pending[u].weather_attempts <= 3
            /\ Len(pending[u].waits) <= pending[u].geo_attempts + pending[u].weather_attempts
            /\ pending[u].sends <= 2)
    /\ \A u \in Users : (u \in DOMAIN pending) ~> (u \notin DOMAIN pending)

C26_Witness ==
    /\ pending = EmptyDict
    /\ ev.kind = "run"
    /\ ev.event = "weather"
    /\ ev.geo_attempts = 2
    /\ ev.weather_attempts = 3
    /\ ev.waits = <<4 * 60, 4, 8, 4 * 60>>
    /\ ev.sends = 1
    /\ ~ev.raised

----------------------------------------------------------------------------
(* The choice of the forecast slots on its own: the loop over target_hours   *)
(* applied to every short list of upstream time strings.  A time string is   *)
(* a date, a separator and HH:MM; the string the code looks for first has    *)
(* the separator "T".                                                        *)

MaxTimes == 3

\* the time strings the upstream answers with
TimeStrings ==
    [date : {0, 1}, sep : {"T", " "}, hm : {"00:00", "09:00", "12:00"}]

TimeLists == UNION { [1..n -> TimeStrings] : n \in 0..MaxTimes }

\* data["hourly"] for the list times: the i-th temperature is 100 + i
HourlyOf(times) ==
    [time |-> times,
     temperature_2m |-> [i \in 1..Len(times) |-> 100 + i],
     weathercode |-> [i \in 1..Len(times) |-> i % 4]]

\* an upstream answer and a target date, to which the loop is applied next
SlotInit ==
    /\ now = 0
    /\ store = EmptyDict
    /\ pending = EmptyDict
    /\ ev \in [kind : {"answer"}, times : TimeLists, target_date : {0, 1}]
    /\ mono = 0
    /\ weather_cache = EmptyDict
    /\ weather_cache_time = EmptyDict
    /\ upstream = EmptyDict

\* the loop at weather.py:136-163 for one upstream answer and one target date
SlotCall ==
    /\ ev.kind = "answer"
    /\ ev' = [kind |-> "slots", times |-> ev.times, target_date |-> ev.target_date,
              forecasts |-> BuildForecasts(HourlyOf(ev.times), ev.target_date, 1)]
    /\ UNCHANGED <<now, store, pending, wvars>>

SlotNext == SlotCall

SlotSpec == SlotInit /\ [][SlotNext]_vars

\* the place of a time of day among the target hours (0 when it is none)
HourRank(hm) ==
    IF \E k \in 1..Len(target_hours) : target_hours[k] = hm
    THEN CHOOSE k \in 1..Len(target_hours) : target_hours[k] = hm
    ELSE 0

\* C27: the forecast list has, in the order 09:00, 12:00, 15:00, 18:00, 21:00,
\* one slot for each target hour for which the upstream has a time string of
\* the target date ending with that hour: the slot of the exact string if it
\* is there, else of the first such string.  Other target hours are left out:
\* at most 5 slots, ordered by hour, no hour twice, no slot of another date.
C27_ForecastSlots ==
    ev.kind = "slots"
    => LET f == ev.forecasts
           times == ev.times
           d == ev.target_date
           Exact(h) == {i \in 1..Len(times) : times[i].date = d /\ times[i].sep = "T" /\ times[i].hm = h}
           OnDate(h) == {i \in 1..Len(times) : times[i].date = d /\ times[i].hm = h}
           Least(S) == CHOOSE i \in S : \A j \in S : i <= j
           Chosen(h) == IF Exact(h) # {} THEN Least(Exact(h)) ELSE Least(OnDate(h))
       IN  /\ Len(f) <= 5
           /\ \A i \in 1..Len(f) :
                 /\ HourRank(f[i].time) # 0
                 /\ f[i].datetime.date = d
                 /\ f[i].datetime.hm = f[i].time
                 /\ f[i].datetime = times[Chosen(f[i].time)]
                 /\ f[i].temp = 100 + Chosen(f[i].time)
                 /\ f[i].code = Chosen(f[i].time) % 4
           /\ \A i \in 1..Len(f), j \in 1..Len(f) :
                 i < j => HourRank(f[i].time) < HourRank(f[j].time)
           /\ \A k \in 1..Len(target_hours) :
                 (\E i \in 1..Len(f) : f[i].time = target_hours[k])
                 <=> OnDate(target_hours[k]) # {}

\* the exact string is third, behind a string of the other date and a string
\* of the target date with another separator; 12:00 has only the latter kind
C27_Witness ==
    /\ ev.kind = "slots"
    /\ ev.target_date = 1
    /\ ev.times = << [date |-> 0, sep |-> "T", hm |-> "09:00"],
                     [date |-> 1, sep |-> " ", hm |-> "09:00"],
                     [date |-> 1, sep |-> "T", hm |-> "09:00"] >>
    /\ Len(ev.forecasts) = 1
    /\ ev.forecasts[1].temp = 103

----------------------------------------------------------------------------
(* The from_place of the second timezone turn *)

\* C28: in every reachable store a state with mode tz and step to holds a
\* from_place that is not None and has a timezone, after any sequence of
\* postbacks, texts, locations, menu commands and expiries; so the turn that
\* reads from_place["timezone"] never fails there.
C28_StepToHoldsFromPlace ==
    /\ \A u \in DOMAIN store :
          LET state == store[u]
          IN  (/\ "mode" \in DOMAIN state /\ state["mode"] = "tz"
               /\ "step" \in DOMAIN state /\ state["step"] = "to")
              => /\ "from_place" \in DOMAIN state
                 /\ state["from_place"] # None
                 /\ "timezone" \in DOMAIN state["from_place"]
    /\ (ev.kind = "text" /\ ev.live = "TZ_AWAIT_TO" /\ ev.resolved = "place")
       => /\ ev.pre_from_place # None
          /\ "timezone" \in DOMAIN ev.pre_from_place
          /\ Len(ev.sends) = 1

\* the first turn has just stored the state (tz, to) with the place it found
C28_Witness ==
    /\ ev.kind = "text"
    /\ ev.live = "TZ_AWAIT_FROM"
    /\ ev.resolved = "place"
    /\ ev.user \in DOMAIN store
    /\ StateName(store[ev.user]) = "TZ_AWAIT_TO"
    /\ store[ev.user]["from_place"] # None
    /\ store[ev.user]["from_place"].timezone = "Asia/Kolkata"

----------------------------------------------------------------------------
(* Failed lookups and the forecast cache (checked under WeatherSpec) *)

\* C29: a lookup whose fetch fails on every attempt, or brings an answer
\* without the hourly arrays, raises; it returns no triple (an expired entry
\* of the cache is no fallback), inserts nothing and leaves every entry of
\* the cache and its time as they were.
C29_FailedLookupLeavesCache ==
    [][(ev'.kind = "lookup" /\ ev'.answer \in {"failed", "incomplete"})
       => /\ ev'.raised
          /\ ev'.ret = None
          /\ weather_cache' = weather_cache
          /\ weather_cache_time' = weather_cache_time]_vars

\* every attempt failed while the cache held an expired entry of the key
C29_Witness ==
    /\ ev.kind = "lookup"
    /\ ev.answer = "failed"
    /\ ev.attempts = 3
    /\ ev.raised
    /\ ev.key \in DOMAIN weather_cache
    /\ ev.at - weather_cache_time[ev.key] >= WEATHER_CACHE_TTL_SECONDS

----------------------------------------------------------------------------
(* Reading a live state (checked under StoreSpec) *)

\* C30: a get on a live state (updated less than 600 seconds ago, created at
\* most 24 hours ago) returns the stored state with all its fields and leaves
\* the store as it was; updated_at is not refreshed, so the idle timeout runs
\* from the last set or merge and not from the last get.
C30_GetLeavesLiveState ==
    [][(/\ ev'.kind = "get"
        /\ ev'.pre # None
        /\ ev'.at - ev'.pre["updated_at"] < STATE_TIMEOUT_SECONDS
        /\ ev'.at <= ev'.pre["created_at"] + ttl_hours * 3600)
       => /\ ev'.ret = ev'.pre
          /\ store' = store
          /\ store'[ev'.user] = ev'.pre]_vars

\* a state read 500 seconds after its last merge, at the end of its 24 hours
C30_Witness ==
    /\ ev.kind = "get"
    /\ ev.pre # None
    /\ ev.at - ev.pre["updated_at"] = 500
    /\ ev.at = ev.pre["created_at"] + ttl_hours * 3600
    /\ ev.ret = ev.pre
    /\ "from_place" \in DOMAIN ev.ret
    /\ store[ev.user] = ev.pre

----------------------------------------------------------------------------
(* The sweep (checked under StoreSpec) *)

\* C31, as claimed: clear_expired removes every state that get_state would
\* treat as expired (idle for 600 seconds or more, older than 24 hours, or
\* without a timestamp) and leaves every other state unchanged, so after a
\* sweep the store holds only states that an immediate get would return.
C31_SweepRemovesAllExpired ==
    ev.kind = "sweep"
    => /\ \A u \in DOMAIN ev.pre :
             LET state == ev.pre[u]
                 gone == \/ "updated_at" \notin DOMAIN state
                         \/ "created_at" \notin DOMAIN state
                         \/ ev.at - state["updated_at"] >= STATE_TIMEOUT_SECONDS
                         \/ ev.at > state["created_at"] + ttl_hours * 3600
             IN  IF gone THEN u \notin DOMAIN store
                 ELSE u \in DOMAIN store /\ store[u] = state
       /\ DOMAIN store \subseteq DOMAIN ev.pre
       /\ \A u \in DOMAIN store : get_state(store, u, now).ret # None

\* C31, amended: clear_expired removes every state older than 24 hours (or
\* without created_at) and leaves every other state unchanged, the states
\* idle for 600 seconds or more included; after a sweep the store holds only
\* states inside their maximum lifetime.
C31_SweepRemovesLifetimeExpired ==
    ev.kind = "sweep"
    => /\ \A u \in DOMAIN ev.pre :
             LET state == ev.pre[u]
                 gone == \/ "created_at" \notin DOMAIN state
                         \/ ev.at > state["created_at"] + ttl_hours * 3600
             IN  IF gone THEN u \notin DOMAIN store
                 ELSE u \in DOMAIN store /\ store[u] = state
       /\ DOMAIN store \subseteq DOMAIN ev.pre
       /\ \A u \in DOMAIN store :
             now <= store[u]["created_at"] + ttl_hours * 3600

\* a sweep has removed a state that a merge had refreshed 100 seconds before
\* but that was older than 24 hours
C31_Witness ==
    /\ ev.kind = "sweep"
    /\ "u1" \in DOMAIN ev.pre
    /\ ev.at - ev.pre["u1"]["updated_at"] = 100
    /\ ev.at > ev.pre["u1"]["created_at"] + ttl_hours * 3600
    /\ "u1" \notin DOMAIN store

----------------------------------------------------------------------------
(* daily_broadcast.py: the scheduled broadcast (BroadcastSpec) *)

\* CITIES: the names of the four configured cities, in order (romanised)
CITIES == <<"Yokohama", "Matsuyama", "Kagoshima", "Akita">>

\* weather_icon_from_code(code); icons are written by name
weather_icon_from_code(code) ==
    IF code = 0 THEN "sun"
    ELSE IF code \in {1, 2} THEN "sun-cloud"
    ELSE IF code = 3 THEN "cloud"
    ELSE IF code \in {45, 48} THEN "fog"
    ELSE IF 51 <= code /\ code <= 57 THEN "drizzle"
    ELSE IF (61 <= code /\ code <= 67) \/ (80 <= code /\ code <= 82) THEN "umbrella"
    ELSE IF (71 <= code /\ code <= 77) \/ (85 <= code /\ code <= 86) THEN "snow"
    ELSE IF code \in {95, 96, 99} THEN "thunder"
    ELSE "thermometer"

\* what a call of get_tomorrow_morning_forecast_open_meteo can do: return a
\* forecast (temp in tenths of a degree, precip_prob optional) or raise
MorningOutcomes ==
    { [ok |-> TRUE, err |-> "",
       f |-> [time |-> "T07:00", temp |-> 123, precip_prob |-> <<40>>, weather |-> "clear", code |-> 0]],
      [ok |-> TRUE, err |-> "",
       f |-> [time |-> "T07:00", temp |-> -15, precip_prob |-> <<>>, weather |-> "rain", code |-> 61]],
      [ok |-> FALSE, err |-> "HTTP Error 500", f |-> EmptyDict] }

\* the item appended for one city: lines 41-48 on success, 52-59 on failure
ForecastItem(name, outcome) ==
    IF outcome.ok
    THEN [name |-> name, icon |-> weather_icon_from_code(outcome.f.code),
          weather |-> outcome.f.weather, temp |-> outcome.f.temp,
          pop |-> outcome.f.precip_prob, ok |-> TRUE]
    ELSE [name |-> name, icon |-> "question", weather |-> "fetch failed",
          temp |-> 0, pop |-> <<>>, ok |-> FALSE]

\* the loop of get_tomorrow_forecasts from city i on; fetch maps a city name
\* to the outcome of its call
RECURSIVE ForecastLoop(_, _, _)
ForecastLoop(cities, i, fetch) ==
    IF i > Len(cities) THEN <<>>
    ELSE <<ForecastItem(cities[i], fetch[cities[i]])>> \o ForecastLoop(cities, i + 1, fetch)

\* f"{n:02d}"
Pad2(n) == IF n < 10 THEN "0" \o ToString(n) ELSE ToString(n)

\* get_tomorrow_forecasts as it would be if a failed city stopped the loop
get_tomorrow_forecasts_abort(cities, target_hour, fetch, t) ==
    [date |-> LocalDate("Asia/Tokyo", t) + 1,
     time |-> Pad2(target_hour) \o ":00",
     items |-> LET failing == {i \in 1..Len(cities) : ~fetch[cities[i]].ok}
                   stop == IF failing = {} THEN Len(cities) + 1
                           ELSE CHOOSE i \in failing : \A k \in failing : i <= k
               IN  SubSeq(ForecastLoop(cities, 1, fetch), 1, stop - 1)]

\* get_tomorrow_forecasts(cities, target_hour) at time t
get_tomorrow_forecasts(cities, target_hour, fetch, t) ==
    [date |-> LocalDate("Asia/Tokyo", t) + 1,
     time |-> Pad2(target_hour) \o ":00",
     items |-> ForecastLoop(cities, 1, fetch)]

\* format_forecast_block(forecasts): one block per item, joined in order
format_forecast_block(forecasts) ==
    [i \in 1..Len(forecasts.items) |->
        LET item == forecasts.items[i]
        IN  [name |-> item.name, icon |-> item.icon, weather |-> item.weather,
             temp |-> item.temp,
             pop |-> IF item.pop # <<>> THEN ToString(item.pop[1]) \o "%" ELSE "unknown"]]

\* the weather section of build_text_message (lines 85-97)
WeatherSection(forecasts) ==
    LET any_ok == \E i \in 1..Len(forecasts.items) : forecasts.items[i].ok
    IN  IF any_ok
        THEN [date |-> forecasts.date, time |-> forecasts.time, failed |-> FALSE,
              block |-> format_forecast_block(forecasts)]
        ELSE [date |-> forecasts.date, time |-> forecasts.time, failed |-> TRUE,
              block |-> <<>>]

\* daily_broadcast.build_text_message() at time t
broadcast_build_text_message(fetch, t) ==
    [type |-> "text",
     text |-> [greeting |-> "good evening",
               today |-> LocalSeconds("Asia/Tokyo", t) \div 60,
               weather_section |-> WeatherSection(get_tomorrow_forecasts(CITIES, 7, fetch, t)),
               closing |-> "post today's report"]]

LINE_BROADCAST_URL == "https://api.line.me/v2/bot/message/broadcast"

LINE_PUSH_URL == "https://api.line.me/v2/bot/message/push"

\* send_broadcast(token, messages): the request it posts
send_broadcast(token, messages) ==
    [url |-> LINE_BROADCAST_URL, token |-> token, payload |-> [messages |-> messages]]

\* send_push(token, user_id, messages): the request it posts
send_push(token, user_id, messages) ==
    [url |-> LINE_PUSH_URL, token |-> token, payload |-> [to |-> user_id, messages |-> messages]]

\* str.lower() on the values LINE_TEST_MODE takes here
Lower(s) == IF s = "TRUE" THEN "true" ELSE IF s = "Yes" THEN "yes" ELSE s

\* the environments of a run: optional variables are <<>> when unset
Environments ==
    [LINE_CHANNEL_ACCESS_TOKEN : {<<>>, <<"">>, <<"tok">>},
     LINE_TEST_MODE : {<<>>, <<"TRUE">>, <<"1">>, <<"Yes">>, <<"false">>},
     TEST_LINE_USER_ID : {<<>>, <<"U1">>}]

\* os.environ.get(name, default)
EnvGet(env, name, default) == IF env[name] = <<>> THEN default ELSE env[name][1]

\* main(): what it raised, the messages it built, the requests it posted and
\* what it printed; post is "ok" or the error urlopen raised
main(env, fetch, post, t) ==
    LET token == EnvGet(env, "LINE_CHANNEL_ACCESS_TOKEN", "")
        test_mode == Lower(EnvGet(env, "LINE_TEST_MODE", "")) \in {"true", "1", "yes"}
        messages == <<broadcast_build_text_message(fetch, t)>>
        user_id == EnvGet(env, "TEST_LINE_USER_ID", "")
        request == IF test_mode THEN send_push(token, user_id, messages)
                   ELSE send_broadcast(token, messages)
    IN  IF token = ""
        THEN [raised |-> "Missing LINE_CHANNEL_ACCESS_TOKEN", messages |-> <<>>,
              posts |-> <<>>, out |-> <<>>]
        ELSE IF test_mode /\ user_id = ""
        THEN [raised |-> "Missing TEST_LINE_USER_ID", messages |-> messages,
              posts |-> <<>>, out |-> <<>>]
        ELSE IF post # "ok"
        THEN [raised |-> post, messages |-> messages, posts |-> <<request>>, out |-> <<>>]
        ELSE [raised |-> "", messages |-> messages, posts |-> <<request>>,
              out |-> <<"OK: 200",
                        IF test_mode THEN "TEST mode: sent to yourself"
                        ELSE "PROD mode: broadcast sent">>]

\* the clock readings of a run: before and after midnight in Asia/Tokyo
BroadcastTimes == {0, 54000}

PostOutcomes == {"ok", "HTTP Error 401"}

BroadcastInit ==
    /\ now \in BroadcastTimes
    /\ store = EmptyDict
    /\ pending = EmptyDict
    /\ ev \in [kind : {"cron"}, env : Environments,
               fetch : [{CITIES[i] : i \in 1..Len(CITIES)} -> MorningOutcomes],
               post : PostOutcomes]
    /\ mono = 0
    /\ weather_cache = EmptyDict
    /\ weather_cache_time = EmptyDict
    /\ upstream = EmptyDict

\* one run of the script
BroadcastRun ==
    /\ ev.kind = "cron"
    /\ ev' = [kind |-> "main", env |-> ev.env, fetch |-> ev.fetch, post |-> ev.post,
              forecasts |-> get_tomorrow_forecasts(CITIES, 7, ev.fetch, now),
              result |-> main(ev.env, ev.fetch, ev.post, now)]
    /\ UNCHANGED <<now, store, pending, wvars>>

BroadcastNext == BroadcastRun

BroadcastSpec == BroadcastInit /\ [][BroadcastNext]_vars

\* the required configuration of a run is present
Configured(env) ==
    /\ EnvGet(env, "LINE_CHANNEL_ACCESS_TOKEN", "") # ""
    /\ Lower(EnvGet(env, "LINE_TEST_MODE", "")) \in {"true", "1", "yes"}
       => EnvGet(env, "TEST_LINE_USER_ID", "") # ""

\* C32: get_tomorrow_forecasts returns one item per configured city, in the
\* configured order; the item of a city is ok exactly when its fetch
\* succeeded, whatever happened to the cities before it, and then carries that
\* fetch's forecast. No run posts more than once; a run with its required
\* configuration present builds one message and posts it exactly once, as a push to the test user in test mode and as a broadcast
\* otherwise, and the message has the per-city block exactly when at least
\* one city succeeded.
C32_BroadcastToleratesFailure ==
    ev.kind = "main"
    => /\ Len(ev.forecasts.items) = Len(CITIES)
       /\ \A i \in 1..Len(CITIES) :
             LET item == ev.forecasts.items[i]
                 outcome == ev.fetch[CITIES[i]]
             IN  /\ item.name = CITIES[i]
                 /\ item.ok = outcome.ok
                 /\ outcome.ok => item.weather = outcome.f.weather /\ item.temp = outcome.f.temp
       /\ Len(ev.result.posts) <= 1
       /\ Configured(ev.env)
          => /\ Len(ev.result.messages) = 1
             /\ Len(ev.result.posts) = 1
             /\ ev.result.posts[1].payload.messages = ev.result.messages
             /\ ev.result.posts[1].url =
                   IF Lower(EnvGet(ev.env, "LINE_TEST_MODE", "")) \in {"true", "1", "yes"}
                   THEN LINE_PUSH_URL ELSE LINE_BROADCAST_URL
             /\ LET section == ev.result.messages[1].text.weather_section
                    some_ok == \E c \in DOMAIN ev.fetch : ev.fetch[c].ok
                IN  /\ section.failed = ~some_ok
                    /\ (section.block # <<>>) = some_ok
                    /\ some_ok => /\ Len(section.block) = Len(CITIES)
                                  /\ \A i \in 1..Len(CITIES) : section.block[i].name = CITIES[i]

\* a broadcast went out whose first and third cities failed and whose second
\* and fourth cities carry their forecasts
C32_Witness ==
    /\ ev.kind = "main"
    /\ ~ev.fetch["Yokohama"].ok /\ ev.fetch["Matsuyama"].ok
    /\ ~ev.fetch["Kagoshima"].ok /\ ev.fetch["Akita"].ok
    /\ Len(ev.result.posts) = 1
    /\ ev.result.posts[1].url = LINE_BROADCAST_URL
    /\ ~ev.result.posts[1].payload.messages[1].text.weather_section.failed
    /\ ev.forecasts.items[4].ok

====
